---------------------------- MODULE Spec2Model ----------------------------
(***************************************************************************)
(* Model of the log analysis engine of ethos58                             *)
(* (src/src/utils/csvParser.js): row classification, ethanol-scaled AFR    *)
(* thresholds, the four metric analyzers and the aggregation of their      *)
(* verdicts by analyzeLog; and of the recent-logs store                    *)
(* (src/src/utils/storage.js).                                             *)
(*                                                                         *)
(* Numbers.  JavaScript numbers are modelled in fixed point on a grid that *)
(* has points on both sides of every threshold the code compares against:  *)
(*   - load, pedal, throttle, HPFP pressure, IAT and timing cells are      *)
(*     whole numbers of their unit;                                        *)
(*   - AFR / lambda cells are hundredths; a value returned by toAfr is in  *)
(*     thousandths, because lambda * 14.7 has three decimals;              *)
(*   - a boost cell is in tenths of its unit; a boost normalised to psi is *)
(*     in millionths of a psi (PsiScale), because 1 kPa = 0.14504 psi.     *)
(* NaN and null are the value [ok |-> FALSE, v |-> 0]; a number n is       *)
(* [ok |-> TRUE, v |-> n].                                                 *)
(***************************************************************************)
EXTENDS Integers, Sequences, FiniteSets, TLC

VARIABLES
    pc,            \* position of the modelled call
    \* ---- one call of isDemand and of isWot
    sensors,       \* [load, boost, pedal, throttle]: the four arguments
    regime,        \* [isDemand, isWot]: the values returned
    \* ---- getAfrThresholds, called for two car profiles
    ethanol,       \* carDetails.ethanol of the first call
    ethanolB,      \* carDetails.ethanol of the second call
    thresholds,    \* the object returned by the first call
    thresholdsB,   \* the object returned by the second call
    \* ---- worstStatus
    statuses,      \* <<a, b, c>>: the statuses handed to worstStatus
    worst,         \* the values worstStatus returned for them
    \* ---- analyzeLog (its car profile is `ethanol`, its thresholds `thresholds`)
    rows,          \* the parsed data rows
    columns,       \* channel -> resolved header, <<>> for null
    timingColumns, \* the detected timing-correction headers
    boostUnit,     \* "psi", "bar" or "kpa"
    isLambdaAfr,   \* whether the AFR column holds lambda
    i,             \* index of the next row of the loop being run
    afrLoop,       \* analyzeAfr's locals: status, worstLean, leanEvents, ...
    maxDropPct,    \* analyzeHpfp's local, as a fraction
    afr,           \* metrics.afr
    hpfp,          \* metrics.hpfp
    iat,           \* metrics.iat
    timing,        \* metrics.timingCorrections
    result,        \* the object analyzeLog returns
    chartData,     \* the points buildChartData returned
    \* ---- parseCsv
    csvText,       \* the lines of the file, each a string
    headers,       \* the header cells
    error,         \* the message of the Error thrown, "" when none
    \* ---- storage.js
    localStorage,  \* the keys held and their values, parsed
    now            \* Date.now()

vars == <<pc, sensors, regime, ethanol, ethanolB, thresholds, thresholdsB,
          statuses, worst, rows, columns, timingColumns, boostUnit, isLambdaAfr,
          i, afrLoop, maxDropPct, afr, hpfp, iat, timing, result, chartData,
          csvText, headers, error, localStorage, now>>

inputVars  == <<rows, columns, timingColumns, boostUnit>>
parseVars  == <<csvText, headers, error>>
logVars    == <<inputVars, isLambdaAfr, i, afrLoop, maxDropPct, afr, hpfp, iat,
                timing, result, chartData, parseVars>>

classVars  == <<sensors, regime>>
threshVars == <<ethanol, ethanolB, thresholds, thresholdsB>>
worstVars  == <<statuses, worst>>
storageVars == <<localStorage, now>>

\* ------------------------------------------------------------------ numbers

PsiScale == 1000000

Num(n) == [ok |-> TRUE, v |-> n]
NaN    == [ok |-> FALSE, v |-> 0]
Null   == [ok |-> FALSE, v |-> 0]
isNaN(x) == ~x.ok

Min(a, b) == IF a < b THEN a ELSE b
Max(a, b) == IF a > b THEN a ELSE b

\* n / d rounded to the nearest integer, halves away from zero (Number.toFixed)
RoundDiv(n, d) ==
    IF n >= 0 THEN (2 * n + d) \div (2 * d)
    ELSE 0 - ((2 * (0 - n) + d) \div (2 * d))

\* ---------------------------------------------------------------- constants

LOAD_DEMAND  == 50
LOAD_WOT     == 70
BOOST_DEMAND == 2
BOOST_WOT    == 8
LOAD_TIMING  == 40

AFR_LEAN_RISK    == 1380
AFR_LEAN_CAUTION == 1300
AFR_RICH_RISK    == 1000
AFR_RICH_CAUTION == 1080

FUEL_CUT_AFR == 1650

STOICH_E0       == 1470
STOICH_E85      == 980
MAX_ETHANOL     == 85
DEFAULT_ETHANOL == 10

Statuses == {"Safe", "Caution", "Risk"}

\* --------------------------------------------------------------- classifier

isDemandByLoadAlone(load, boost, pedal, throttle) ==
    LET l == IF isNaN(load) THEN 0 ELSE load.v
    IN  IF ~isNaN(pedal) /\ pedal.v < 1
           /\ (IF ~isNaN(throttle) THEN throttle.v < 5 ELSE TRUE)
        THEN FALSE
        ELSE l >= LOAD_DEMAND

isDemand(load, boost, pedal, throttle) ==
    LET l == IF isNaN(load) THEN 0 ELSE load.v
        b == IF isNaN(boost) THEN 0 ELSE boost.v
        p == pedal
        t == throttle
    IN  IF ~isNaN(p) /\ p.v < 1 /\ (IF ~isNaN(t) THEN t.v < 5 ELSE TRUE)
        THEN FALSE
        ELSE l >= LOAD_DEMAND \/ b > BOOST_DEMAND * PsiScale

isWotIgnoringThrottle(load, boost, pedal, throttle) ==
    LET l == IF isNaN(load) THEN 0 ELSE load.v
        b == IF isNaN(boost) THEN 0 ELSE boost.v
    IN  IF ~isNaN(pedal) /\ pedal.v < 50 THEN FALSE
        ELSE l >= LOAD_WOT \/ b > BOOST_WOT * PsiScale

isWot(load, boost, pedal, throttle) ==
    LET l == IF isNaN(load) THEN 0 ELSE load.v
        b == IF isNaN(boost) THEN 0 ELSE boost.v
        p == pedal
        t == throttle
    IN  IF ~isNaN(p) /\ p.v < 50 THEN FALSE
        ELSE IF ~isNaN(t) /\ t.v < 30 THEN FALSE
        ELSE l >= LOAD_WOT \/ b > BOOST_WOT * PsiScale

\* ---------------------------------------------------------------- worstStatus

\* STATUS_RANK[s] ?? 0
STATUS_RANK(s) ==
    IF s = "Risk" THEN 2 ELSE IF s = "Caution" THEN 1 ELSE 0

\* filter(Boolean): the empty string stands for any falsy element
Boolean(s) == s # ""

RECURSIVE Reduce(_, _)
\* statuses.reduce((worst, s) => rank(s) > rank(worst) ? s : worst, init):
\* a fold from the left, the last element is combined last
Reduce(ss, init) ==
    IF Len(ss) = 0 THEN init
    ELSE LET w == Reduce(SubSeq(ss, 1, Len(ss) - 1), init)
             s == ss[Len(ss)]
         IN  IF STATUS_RANK(s) > STATUS_RANK(w) THEN s ELSE w

worstStatusLastWins(ss) ==
    LET kept == SelectSeq(ss, Boolean)
    IN  IF Len(kept) = 0 THEN "Safe" ELSE kept[Len(kept)]

worstStatus(ss) == Reduce(SelectSeq(ss, Boolean), "Safe")

\* ----------------------------------------------------------- getAfrThresholds

\* carDetails.ethanol: absent (undefined), a number, or a value Number() maps to NaN
Absent     == [kind |-> "absent", v |-> 0]
NonNumeric == [kind |-> "nan", v |-> 0]
Eth(n)     == [kind |-> "num", v |-> n]

\* Number(ethanolPercent) || 10, with the default parameter for undefined
NumberOr10(eth) ==
    IF eth.kind = "absent" THEN DEFAULT_ETHANOL
    ELSE IF eth.kind = "nan" THEN DEFAULT_ETHANOL
    ELSE IF eth.v = 0 THEN DEFAULT_ETHANOL
    ELSE eth.v

ClampEthanolDefaulting(eth) ==
    IF eth.kind = "num" /\ eth.v > 0 /\ eth.v <= MAX_ETHANOL THEN eth.v
    ELSE DEFAULT_ETHANOL

\* Math.min(85, Math.max(0, Number(ethanolPercent) || 10))
ClampEthanol(eth) == Min(MAX_ETHANOL, Max(0, NumberOr10(eth)))

\* parseFloat((14.7 - (14.7 - 9.8) * (e / 85)).toFixed(2)), in hundredths
StoichOf(e) ==
    RoundDiv(STOICH_E0 * MAX_ETHANOL - (STOICH_E0 - STOICH_E85) * e, MAX_ETHANOL)

ScaledTruncated(base, stoich) == (base * stoich) \div STOICH_E0

\* parseFloat((BASE * (stoich / 14.7)).toFixed(2)), in hundredths
Scaled(base, stoich) == RoundDiv(base * stoich, STOICH_E0)

getAfrThresholds(eth) ==
    LET e      == ClampEthanol(eth)
        stoich == StoichOf(e)
    IN  [stoich       |-> stoich,
         lean_risk    |-> Scaled(AFR_LEAN_RISK, stoich),
         lean_caution |-> Scaled(AFR_LEAN_CAUTION, stoich),
         rich_risk    |-> Scaled(AFR_RICH_RISK, stoich),
         rich_caution |-> Scaled(AFR_RICH_CAUTION, stoich)]

\* ------------------------------------------------------------ rows and cells
\*
\* A header is a sequence of characters, <<>> for a channel that did not
\* resolve (null).  A row maps each channel to the parsed value of its cell
\* under the header the channel resolved to (parseFloat: a number or NaN) and
\* `timing` to the sequence of cells under the timing columns.

Channels == {"time", "rpm", "load", "boost", "pedal", "throttle", "afr",
             "afr_target", "hpfp", "hpfp_target", "iat"}

\* num(row, col): NaN when the column is null or the cell is empty / not a number
num(row, cols, ch) == IF cols[ch] = <<>> THEN NaN ELSE row[ch]

\* lambda * 14.7: hundredths of lambda to thousandths of AFR
lambdaToAfr(lambda) == lambda * 147

\* toAfr = v => isLambdaAfr ? lambdaToAfr(v) : v  (hundredths to thousandths)
toAfr(v, isLambda) == IF isLambda THEN lambdaToAfr(v) ELSE v * 10

\* tenths of bar / kPa / psi to millionths of a psi
normalizeBoostToPsi(v, unit) ==
    IF isNaN(v) THEN NaN
    ELSE IF unit = "bar" THEN Num(v.v * 1450380)
    ELSE IF unit = "kpa" THEN Num(v.v * 14504)
    ELSE Num(v.v * (PsiScale \div 10))

RowIsDemand(row, cols, unit) ==
    isDemand(num(row, cols, "load"),
             normalizeBoostToPsi(num(row, cols, "boost"), unit),
             num(row, cols, "pedal"), num(row, cols, "throttle"))

RowIsWot(row, cols, unit) ==
    isWot(num(row, cols, "load"),
          normalizeBoostToPsi(num(row, cols, "boost"), unit),
          num(row, cols, "pedal"), num(row, cols, "throttle"))

RECURSIVE SumSeq(_)
SumSeq(s) == IF Len(s) = 0 THEN 0 ELSE s[1] + SumSeq(Tail(s))

RECURSIVE MaxSeq(_)
\* Math.max(...s) of a non-empty sequence
MaxSeq(s) == IF Len(s) = 1 THEN s[1] ELSE Max(s[1], MaxSeq(Tail(s)))

\* ---------------------------------------------------------------- analyzeAfr

AfrStart == [status |-> "Safe", worstLean |-> Null, leanEvents |-> 0,
             richEvents |-> 0, demandAfrSamples |-> <<>>, targetSamples |-> <<>>]

\* if (worstLean === null || afr > worstLean) worstLean = afr
WorseLean(worstLean, afrV) ==
    IF ~worstLean.ok \/ afrV > worstLean.v THEN Num(afrV) ELSE worstLean

AfrWotBranchLastRowWins(acc, afrV, th) ==
    IF afrV > th.lean_risk * 10
    THEN [acc EXCEPT !.leanEvents = @ + 1, !.status = "Risk",
                     !.worstLean = WorseLean(@, afrV)]
    ELSE IF afrV > th.lean_caution * 10
    THEN [acc EXCEPT !.leanEvents = @ + 1, !.status = "Caution",
                     !.worstLean = WorseLean(@, afrV)]
    ELSE IF afrV < th.rich_risk * 10
    THEN [acc EXCEPT !.richEvents = @ + 1, !.status = "Risk"]
    ELSE IF afrV < th.rich_caution * 10
    THEN [acc EXCEPT !.richEvents = @ + 1, !.status = "Caution"]
    ELSE acc

\* the lean / rich branches taken for a WOT row
AfrWotBranch(acc, afrV, th) ==
    IF afrV > th.lean_risk * 10
    THEN [acc EXCEPT !.leanEvents = @ + 1, !.status = "Risk",
                     !.worstLean = WorseLean(@, afrV)]
    ELSE IF afrV > th.lean_caution * 10 /\ acc.status # "Risk"
    THEN [acc EXCEPT !.leanEvents = @ + 1, !.status = "Caution",
                     !.worstLean = WorseLean(@, afrV)]
    ELSE IF afrV < th.rich_risk * 10
    THEN [acc EXCEPT !.richEvents = @ + 1, !.status = "Risk"]
    ELSE IF afrV < th.rich_caution * 10 /\ acc.status # "Risk"
    THEN [acc EXCEPT !.richEvents = @ + 1, !.status = "Caution"]
    ELSE acc

\* the demand branch: collect the AFR sample and the target reading
AfrDemandBranch(acc, row, cols, afrV, isLambda) ==
    LET rawTarget == num(row, cols, "afr_target")
    IN  [acc EXCEPT
            !.demandAfrSamples = Append(@, afrV),
            !.targetSamples =
                IF cols.afr_target # <<>> /\ ~isNaN(rawTarget)
                THEN Append(@, toAfr(rawTarget.v, isLambda)) ELSE @]

AfrRowNoFuelCut(acc, row, cols, isLambda, th, unit) ==
    LET rawAfr == num(row, cols, "afr")
        afrV    == toAfr(rawAfr.v, isLambda)
        acc1   == IF RowIsDemand(row, cols, unit)
                  THEN AfrDemandBranch(acc, row, cols, afrV, isLambda) ELSE acc
    IN  IF isNaN(rawAfr) THEN acc
        ELSE IF RowIsWot(row, cols, unit) THEN AfrWotBranch(acc1, afrV, th)
        ELSE acc1

\* one iteration of `for (const row of rows)`
AfrRow(acc, row, cols, isLambda, th, unit) ==
    LET rawAfr == num(row, cols, "afr")
        afrV    == toAfr(rawAfr.v, isLambda)
        acc1   == IF RowIsDemand(row, cols, unit)
                  THEN AfrDemandBranch(acc, row, cols, afrV, isLambda) ELSE acc
    IN  IF isNaN(rawAfr) THEN acc
        ELSE IF afrV >= FUEL_CUT_AFR * 10 THEN acc
        ELSE IF RowIsWot(row, cols, unit) THEN AfrWotBranch(acc1, afrV, th)
        ELSE acc1

RECURSIVE AfrLoop(_, _, _, _, _, _)
AfrLoop(acc, rs, cols, isLambda, th, unit) ==
    IF Len(rs) = 0 THEN acc
    ELSE AfrLoop(AfrRow(acc, rs[1], cols, isLambda, th, unit),
                 Tail(rs), cols, isLambda, th, unit)

AfrMissing == [actual |-> Null, target |-> Null, lean_events |-> 0,
               rich_events |-> 0, status |-> "Safe",
               note |-> "AFR column not found in log."]

\* the averages, the displayed AFR (hundredths) and the returned object
AfrResult(acc) ==
    LET nD == Len(acc.demandAfrSamples)
        nT == Len(acc.targetSamples)
        actual == IF acc.worstLean.ok THEN Num(RoundDiv(acc.worstLean.v, 10))
                  ELSE IF nD > 0
                  THEN Num(RoundDiv(SumSeq(acc.demandAfrSamples), 10 * nD))
                  ELSE Null
        target == IF nT > 0 THEN Num(RoundDiv(SumSeq(acc.targetSamples), 10 * nT))
                  ELSE Null
    IN  [actual |-> actual, target |-> target,
         lean_events |-> acc.leanEvents, rich_events |-> acc.richEvents,
         status |-> acc.status,
         note |-> IF acc.leanEvents > 0 THEN "lean event(s) at WOT"
                  ELSE IF acc.richEvents > 0 THEN "rich event(s) at WOT."
                  ELSE ""]

analyzeAfr(rs, cols, isLambda, th, unit) ==
    IF cols.afr = <<>> THEN AfrMissing
    ELSE AfrResult(AfrLoop(AfrStart, rs, cols, isLambda, th, unit))

\* --------------------------------------------------------------- analyzeHpfp
\*
\* maxDropPct is kept as the exact fraction n / d of the worst row, the drop in
\* percent being n / d * 100; fractions are compared by cross-multiplication.

HPFP_DROP_RISK_PCT    == 20
HPFP_DROP_CAUTION_PCT == 10

DropStart == [n |-> 0, d |-> 1]

\* if (dropPct > maxDropPct) maxDropPct = dropPct, for dropPct = (n / d) * 100
DropMax(maxDrop, n, d) ==
    IF n * maxDrop.d > maxDrop.n * d THEN [n |-> n, d |-> d] ELSE maxDrop

HpfpTargetRowAnyTarget(maxDrop, row, cols) ==
    LET a == num(row, cols, "hpfp")
        t == num(row, cols, "hpfp_target")
    IN  IF isNaN(a) \/ isNaN(t) \/ t.v <= 0 \/ a.v <= 0 THEN maxDrop
        ELSE DropMax(maxDrop, t.v - a.v, t.v)

\* one iteration of the loop over the entire log when a target column exists
HpfpTargetRow(maxDrop, row, cols) ==
    LET a == num(row, cols, "hpfp")
        t == num(row, cols, "hpfp_target")
    IN  IF isNaN(a) \/ isNaN(t) \/ t.v <= 1000 \/ a.v <= 0 THEN maxDrop
        ELSE DropMax(maxDrop, t.v - a.v, t.v)

RECURSIVE HpfpTargetLoop(_, _, _)
HpfpTargetLoop(maxDrop, rs, cols) ==
    IF Len(rs) = 0 THEN maxDrop
    ELSE HpfpTargetLoop(HpfpTargetRow(maxDrop, rs[1], cols), Tail(rs), cols)

RECURSIVE HpfpPeakLoop(_, _, _)
\* the loop over `actuals` when no target column exists
HpfpPeakLoop(maxDrop, actuals, peakActual) ==
    IF Len(actuals) = 0 THEN maxDrop
    ELSE HpfpPeakLoop(DropMax(maxDrop, peakActual - actuals[1], peakActual),
                      Tail(actuals), peakActual)

RECURSIVE ValidCells(_, _, _)
\* rows.map(r => num(r, col)).filter(v => !isNaN(v) && v > 0)
ValidCells(rs, cols, ch) ==
    IF Len(rs) = 0 THEN <<>>
    ELSE LET v == num(rs[1], cols, ch)
             rest == ValidCells(Tail(rs), cols, ch)
         IN  IF ~isNaN(v) /\ v.v > 0 THEN <<v.v>> \o rest ELSE rest

RECURSIVE DemandRows(_, _, _)
\* rows.filter(r => isDemand(load, boost, pedal, throttle))
DemandRows(rs, cols, unit) ==
    IF Len(rs) = 0 THEN <<>>
    ELSE LET rest == DemandRows(Tail(rs), cols, unit)
         IN  IF RowIsDemand(rs[1], cols, unit) THEN <<rs[1]>> \o rest ELSE rest

SourceRowsAlwaysAll(rs, cols, unit) == rs

\* const sourceRows = demandRows.length >= 5 ? demandRows : rows
SourceRows(rs, cols, unit) ==
    LET demandRows == DemandRows(rs, cols, unit)
    IN  IF Len(demandRows) >= 5 THEN demandRows ELSE rs

HpfpMissing == [actual |-> Null, target |-> Null, max_drop_pct |-> Null,
                status |-> "Safe", note |-> "HPFP column not found in log."]

HpfpNoReadings == [actual |-> Null, target |-> Null, max_drop_pct |-> Null,
                   status |-> "Safe",
                   note |-> "No valid HPFP readings during engine demand."]

HpfpResultAboveOnly(maxDrop, rs, cols, unit) ==
    LET sourceRows == SourceRows(rs, cols, unit)
        actuals    == ValidCells(sourceRows, cols, "hpfp")
        peakActual == MaxSeq(actuals)
        targets    == IF cols.hpfp_target # <<>>
                      THEN ValidCells(sourceRows, cols, "hpfp_target") ELSE <<>>
        hasTarget  == Len(targets) > 0
        status     == IF maxDrop.n * 100 > HPFP_DROP_RISK_PCT * maxDrop.d THEN "Risk"
                      ELSE IF maxDrop.n * 100 > HPFP_DROP_CAUTION_PCT * maxDrop.d
                      THEN "Caution" ELSE "Safe"
    IN  [actual |-> Num(RoundDiv(SumSeq(actuals), Len(actuals))),
         target |-> IF hasTarget THEN Num(RoundDiv(SumSeq(targets), Len(targets)))
                    ELSE Num(peakActual),
         max_drop_pct |-> Num(RoundDiv(maxDrop.n * 1000, maxDrop.d)),
         status |-> status,
         note |-> IF status = "Risk"
                  THEN (IF hasTarget THEN "HPFP dropped below target during engine demand."
                        ELSE "HPFP dropped below session peak during engine demand.")
                  ELSE IF status = "Caution" THEN "HPFP dipped under load"
                  ELSE ""]

\* the status, the note and the returned object, from the finished drop loop
HpfpResult(maxDrop, rs, cols, unit) ==
    LET sourceRows == SourceRows(rs, cols, unit)
        actuals    == ValidCells(sourceRows, cols, "hpfp")
        peakActual == MaxSeq(actuals)
        targets    == IF cols.hpfp_target # <<>>
                      THEN ValidCells(sourceRows, cols, "hpfp_target") ELSE <<>>
        hasTarget  == Len(targets) > 0
        status     == IF maxDrop.n * 100 >= HPFP_DROP_RISK_PCT * maxDrop.d THEN "Risk"
                      ELSE IF maxDrop.n * 100 >= HPFP_DROP_CAUTION_PCT * maxDrop.d
                      THEN "Caution" ELSE "Safe"
    IN  [actual |-> Num(RoundDiv(SumSeq(actuals), Len(actuals))),
         target |-> IF hasTarget THEN Num(RoundDiv(SumSeq(targets), Len(targets)))
                    ELSE Num(peakActual),
         max_drop_pct |-> Num(RoundDiv(maxDrop.n * 1000, maxDrop.d)),
         status |-> status,
         note |-> IF status = "Risk"
                  THEN (IF hasTarget THEN "HPFP dropped below target during engine demand."
                        ELSE "HPFP dropped below session peak during engine demand.")
                  ELSE IF status = "Caution" THEN "HPFP dipped under load"
                  ELSE ""]

analyzeHpfpUnchecked(rs, cols, unit) ==
    LET actuals == ValidCells(SourceRows(rs, cols, unit), cols, "hpfp")
    IN  IF Len(actuals) = 0 THEN HpfpNoReadings
        ELSE IF cols.hpfp_target # <<>>
        THEN HpfpResult(HpfpTargetLoop(DropStart, rs, cols), rs, cols, unit)
        ELSE HpfpResult(HpfpPeakLoop(DropStart, actuals, MaxSeq(actuals)),
                        rs, cols, unit)

analyzeHpfp(rs, cols, unit) ==
    LET actuals == ValidCells(SourceRows(rs, cols, unit), cols, "hpfp")
    IN  IF cols.hpfp = <<>> THEN HpfpMissing
        ELSE IF Len(actuals) = 0 THEN HpfpNoReadings
        ELSE IF cols.hpfp_target # <<>>
        THEN HpfpResult(HpfpTargetLoop(DropStart, rs, cols), rs, cols, unit)
        ELSE HpfpResult(HpfpPeakLoop(DropStart, actuals, MaxSeq(actuals)),
                        rs, cols, unit)

\* ------------------------------------------------------------------ strings
\*
\* A string is a sequence of one-character strings; "deg" stands for the
\* degree sign.

UpperChars == <<"A", "B", "C", "D", "E", "F", "G", "H", "I", "J", "K", "L", "M",
                "N", "O", "P", "Q", "R", "S", "T", "U", "V", "W", "X", "Y", "Z">>
LowerChars == <<"a", "b", "c", "d", "e", "f", "g", "h", "i", "j", "k", "l", "m",
                "n", "o", "p", "q", "r", "s", "t", "u", "v", "w", "x", "y", "z">>

\* the lower-case letter of each upper-case letter
LowerOf ==
    [c \in {UpperChars[u] : u \in 1..Len(UpperChars)} |->
        LowerChars[CHOOSE u \in 1..Len(UpperChars) : UpperChars[u] = c]]

toLowerCase(h) ==
    [k \in 1..Len(h) |-> IF h[k] \in DOMAIN LowerOf THEN LowerOf[h[k]] ELSE h[k]]

\* h.includes(kw)
includes(h, kw) ==
    \E k \in 0..(Len(h) - Len(kw)) : SubSeq(h, k + 1, k + Len(kw)) = kw

\* ----------------------------------------------------------- findTimingColumns

TIMING_KEYWORDS ==
    {<<"t", "i", "m", "i", "n", "g", " ", "c", "o", "r">>,
     <<"t", "i", "m", "i", "n", "g", "_", "c", "o", "r">>,
     <<"i", "g", "n", " ", "c", "o", "r">>,
     <<"i", "g", "n", "_", "c", "o", "r">>,
     <<"i", "g", "n", "i", "t", "i", "o", "n", " ", "c", "o", "r">>,
     <<"k", "n", "o", "c", "k">>}
CYLINDER_KEYWORDS ==
    {<<"c", "y", "l">>, <<"c", "y", "l", "i", "n", "d", "e", "r">>,
     <<"c", "y", "l", "_">>}

hasTimingWord(lower) == \E kw \in TIMING_KEYWORDS : includes(lower, kw)
hasCylWord(lower)    == \E kw \in CYLINDER_KEYWORDS : includes(lower, kw)

IsTimingHeaderEitherWord(h) ==
    hasTimingWord(toLowerCase(h)) \/ hasCylWord(toLowerCase(h))

\* the predicate of headers.filter(h => ...)
IsTimingHeader(h) ==
    LET lower == toLowerCase(h)
    IN  hasTimingWord(lower) /\ hasCylWord(lower)

findTimingColumns(hs) == SelectSeq(hs, IsTimingHeader)

\* ------------------------------------------------------------------ parseCsv
\*
\* The text of a file is a sequence of characters; "LF", "CR", "TAB" and
\* "QUOTE" stand for the line feed, the carriage return, the tab and the
\* double quote.

\* the element of a one-element set; Only({F(x) : x \in {value}}) is F of the
\* value, the value computed once, as a const of the code is
Only(S) == CHOOSE r \in S : TRUE

Whitespace == {" ", "CR", "TAB", "LF"}

\* str.trim()
trim(str) ==
    LET inked == {k \in 1..Len(str) : str[k] \notin Whitespace}
    IN  IF inked = {} THEN <<>>
        ELSE SubSeq(str, CHOOSE a \in inked : \A b \in inked : a <= b,
                         CHOOSE a \in inked : \A b \in inked : a >= b)

\* text.split(/\r?\n/): the pieces between the line feeds, a carriage return
\* just before a line feed being part of the separator
SplitLines(text) ==
    LET lfs    == {k \in 1..Len(text) : text[k] = "LF"}
        nth(m) == IF m = 0 THEN 0
                  ELSE IF m > Cardinality(lfs) THEN Len(text) + 1
                  ELSE CHOOSE x \in lfs : Cardinality({y \in lfs : y < x}) = m - 1
        first(m) == nth(m - 1) + 1
        last(m)  == IF nth(m) <= Len(text) /\ nth(m) - 1 >= first(m)
                       /\ text[nth(m) - 1] = "CR"
                    THEN nth(m) - 2 ELSE nth(m) - 1
    IN  [m \in 1..(Cardinality(lfs) + 1) |-> SubSeq(text, first(m), last(m))]

IsNonBlank(line) == trim(line) # <<>>

\* text.split(/\r?\n/).filter(l => l.trim())
NonBlankLines(text) == SelectSeq(SplitLines(text), IsNonBlank)

RECURSIVE ParseRowFrom(_, _, _, _, _)
\* the loop of parseRow from character k on
ParseRowFrom(line, k, cells, current, inQuotes) ==
    IF k > Len(line) THEN Append(cells, trim(current))
    ELSE IF line[k] = "QUOTE"
    THEN ParseRowFrom(line, k + 1, cells, current, ~inQuotes)
    ELSE IF line[k] = "," /\ ~inQuotes
    THEN ParseRowFrom(line, k + 1, Append(cells, trim(current)), <<>>, inQuotes)
    ELSE ParseRowFrom(line, k + 1, cells, Append(current, line[k]), inQuotes)

parseRow(line) == ParseRowFrom(line, 1, <<>>, <<>>, FALSE)

TooFewLinesOnlyWhenEmpty(lines) == Len(lines) < 1

\* if (lines.length < 2) throw ...
TooFewLines(lines) == Len(lines) < 2

ParseErrorMessage == "CSV file is empty or could not be parsed."

\* row[h] after headers.forEach((h, idx) => { row[h] = values[idx] ?? '' }):
\* the cell under the last header named h, '' when the line is too short
CellOf(hs, vals, h) ==
    LET at   == {k \in 1..Len(hs) : hs[k] = h}
        last == CHOOSE a \in at : \A b \in at : a >= b
    IN  IF last > Len(vals) THEN <<>> ELSE vals[last]

DigitChars == <<"0", "1", "2", "3", "4", "5", "6", "7", "8", "9">>
IsDigit(c) == \E d \in 1..10 : DigitChars[d] = c
DigitValue(c) == (CHOOSE d \in 1..10 : DigitChars[d] = c) - 1

\* the length of the longest run of digits of str that starts at k
DigitRun(str, k) ==
    LET stops == {m \in k..(Len(str) + 1) : m = Len(str) + 1 \/ ~IsDigit(str[m])}
    IN  (CHOOSE a \in stops : \A b \in stops : a <= b) - k

RECURSIVE DigitsValue(_, _, _)
\* the number written by the n digits of str from k on
DigitsValue(str, k, n) ==
    IF n = 0 THEN 0
    ELSE DigitsValue(str, k, n - 1) * 10 + DigitValue(str[k + n - 1])

RECURSIVE Pow10(_)
Pow10(n) == IF n = 0 THEN 1 ELSE 10 * Pow10(n - 1)

\* parseFloat(cell) in units of 10^-decimals: an optional sign, digits, and an
\* optional point and digits, whatever follows them; NaN without a digit.
\* The cells of the modelled files hold no exponent, no 'Infinity' and no
\* more decimals than the unit keeps.
parseFloat(cell, decimals) ==
    LET Number(str) ==
            LET neg   == Len(str) > 0 /\ str[1] = "-"
                k0    == IF Len(str) > 0 /\ str[1] \in {"-", "+"} THEN 2 ELSE 1
                nInt  == DigitRun(str, k0)
                point == k0 + nInt <= Len(str) /\ str[k0 + nInt] = "."
                nFrac == IF point THEN DigitRun(str, k0 + nInt + 1) ELSE 0
                kept  == Min(nFrac, decimals)
                mag   == DigitsValue(str, k0, nInt) * Pow10(decimals)
                         + DigitsValue(str, k0 + nInt + 1, kept)
                           * Pow10(decimals - kept)
            IN  IF nInt = 0 /\ nFrac = 0 THEN NaN
                ELSE Num(IF neg THEN 0 - mag ELSE mag)
    IN  Only({Number(str) : str \in {trim(cell)}})

\* the decimals the model keeps of a channel's cells
ChannelDecimals(chan) ==
    IF chan \in {"afr", "afr_target"} THEN 2 ELSE IF chan = "boost" THEN 1 ELSE 0

COLUMN_MAP ==
    [time |->
        <<<<"t", "i", "m", "e">>,
          <<"t", "i", "m", "e", "s", "t", "a", "m", "p">>,
          <<"e", "l", "a", "p", "s", "e", "d">>,
          <<"l", "o", "g", " ", "t", "i", "m", "e">>>>,
     rpm |->
        <<<<"r", "p", "m">>,
          <<"e", "n", "g", "i", "n", "e", " ", "s", "p", "e", "e", "d">>,
          <<"e", "n", "g", "i", "n", "e", "_", "s", "p", "e", "e", "d">>>>,
     load |->
        <<<<"l", "o", "a", "d", "_", "%">>,
          <<"l", "o", "a", "d", " ", "(", "%", ")">>,
          <<"l", "o", "a", "d", "(", "%", ")">>,
          <<"l", "o", "a", "d">>,
          <<"e", "n", "g", "i", "n", "e", " ", "l", "o", "a", "d">>,
          <<"t", "h", "r", "o", "t", "t", "l", "e", " ", "p", "o", "s", "i", "t", "i", "o", "n">>>>,
     afr |->
        <<<<"a", "i", "r", " ", "f", "u", "e", "l", " ", "r", "a", "t", "i", "o">>,
          <<"a", "i", "r", "_", "f", "u", "e", "l", "_", "r", "a", "t", "i", "o">>,
          <<"a", "f", "r">>,
          <<"l", "a", "m", "b", "d", "a">>>>,
     boost |->
        <<<<"b", "o", "o", "s", "t", " ", "p", "r", "e", " ", "t", "h", "r", "o", "t", "t", "l", "e">>,
          <<"b", "o", "o", "s", "t", " ", "p", "r", "e", "-", "t", "h", "r", "o", "t", "t", "l", "e">>,
          <<"p", "r", "e", " ", "t", "h", "r", "o", "t", "t", "l", "e", " ", "b", "o", "o", "s", "t">>,
          <<"m", "a", "n", "i", "f", "o", "l", "d", " ", "p", "r", "e", "s", "s", "u", "r", "e", " ", "p", "r", "e", " ", "t", "h", "r", "o", "t", "t", "l", "e">>,
          <<"h", "p", " ", "b", "o", "o", "s", "t", " ", "p", "r", "e", " ", "t", "h", "r", "o", "t", "t", "l", "e">>,
          <<"b", "o", "o", "s", "t", " ", "p", "r", "e", "s", "s", "u", "r", "e", " ", "p", "r", "e", " ", "t", "h", "r", "o", "t", "t", "l", "e">>,
          <<"b", "o", "o", "s", "t", " ", "a", "c", "t">>,
          <<"b", "o", "o", "s", "t", " ", "m", "e", "a", "n">>,
          <<"m", "a", "n", "i", "f", "o", "l", "d", " ", "a", "b", "s", "o", "l", "u", "t", "e", " ", "p", "r", "e", "s", "s", "u", "r", "e">>,
          <<"b", "o", "o", "s", "t", " ", "p", "r", "e", "s", "s", "u", "r", "e">>,
          <<"b", "o", "o", "s", "t", "_", "p", "r", "e", "s", "s", "u", "r", "e">>,
          <<"b", "o", "o", "s", "t", " ", "(", "p", "s", "i", ")">>,
          <<"b", "o", "o", "s", "t", "_", "p", "s", "i">>,
          <<"b", "o", "o", "s", "t">>,
          <<"m", "a", "n", "i", "f", "o", "l", "d", " ", "p", "r", "e", "s", "s", "u", "r", "e">>,
          <<"m", "a", "p">>>>,
     iat |->
        <<<<"i", "n", "t", "a", "k", "e", " ", "a", "i", "r", " ", "t", "e", "m", "p">>,
          <<"i", "n", "t", "a", "k", "e", "_", "a", "i", "r", "_", "t", "e", "m", "p">>,
          <<"i", "n", "t", "a", "k", "e", " ", "a", "i", "r", " ", "t", "e", "m", "p", "e", "r", "a", "t", "u", "r", "e">>,
          <<"c", "h", "a", "r", "g", "e", " ", "a", "i", "r", " ", "t", "e", "m", "p">>,
          <<"c", "h", "a", "r", "g", "e", "_", "a", "i", "r", "_", "t", "e", "m", "p">>,
          <<"c", "h", "a", "r", "g", "e", " ", "a", "i", "r", " ", "t", "e", "m", "p", "e", "r", "a", "t", "u", "r", "e">>,
          <<"^", "i", "a", "t">>>>,
     hpfp |->
        <<<<"h", "p", " ", "f", "u", "e", "l", " ", "p", "r", "e", "s", "s", "u", "r", "e", " ", "a", "c", "t", "u", "a", "l">>,
          <<"h", "p", "f", "p", " ", "a", "c", "t", "u", "a", "l">>,
          <<"h", "p", "f", "p", "_", "a", "c", "t", "u", "a", "l">>,
          <<"h", "i", "g", "h", " ", "p", "r", "e", "s", "s", "u", "r", "e", " ", "f", "u", "e", "l", " ", "p", "u", "m", "p", " ", "a", "c", "t", "u", "a", "l">>,
          <<"h", "p", "f", "p", " ", "a", "c", "t">>,
          <<"h", "p", "f", "p", " ", "(", "p", "s", "i", ")">>,
          <<"h", "p", "f", "p", "_", "p", "s", "i">>,
          <<"h", "p", "f", "p">>,
          <<"h", "i", "g", "h", " ", "p", "r", "e", "s", "s", "u", "r", "e", " ", "f", "u", "e", "l", " ", "p", "u", "m", "p">>,
          <<"f", "u", "e", "l", " ", "p", "r", "e", "s", "s", "u", "r", "e", " ", "a", "c", "t", "u", "a", "l">>,
          <<"f", "u", "e", "l", "_", "p", "r", "e", "s", "s", "u", "r", "e", "_", "a", "c", "t", "u", "a", "l">>>>,
     hpfp_target |->
        <<<<"h", "p", "f", "p", " ", "t", "a", "r", "g", "e", "t">>,
          <<"h", "p", "f", "p", "_", "t", "a", "r", "g", "e", "t">>,
          <<"h", "p", " ", "f", "u", "e", "l", " ", "p", "r", "e", "s", "s", "u", "r", "e", " ", "t", "a", "r", "g", "e", "t">>,
          <<"f", "u", "e", "l", " ", "p", "r", "e", "s", "s", "u", "r", "e", " ", "t", "a", "r", "g", "e", "t">>,
          <<"h", "p", "f", "p", " ", "r", "e", "q">>,
          <<"h", "p", "f", "p", " ", "s", "e", "t", "p", "o", "i", "n", "t">>,
          <<"h", "p", "f", "p", "_", "s", "e", "t", "p", "o", "i", "n", "t">>,
          <<"h", "p", " ", "f", "u", "e", "l", " ", "p", "r", "e", "s", "s", "u", "r", "e", " ", "s", "e", "t", "p", "o", "i", "n", "t">>,
          <<"f", "u", "e", "l", " ", "p", "r", "e", "s", "s", "u", "r", "e", " ", "s", "e", "t", "p", "o", "i", "n", "t">>,
          <<"h", "p", "f", "p", " ", "d", "e", "s", "i", "r", "e", "d">>,
          <<"h", "p", " ", "f", "u", "e", "l", " ", "p", "r", "e", "s", "s", "u", "r", "e", " ", "d", "e", "s", "i", "r", "e", "d">>,
          <<"f", "u", "e", "l", " ", "p", "r", "e", "s", "s", "u", "r", "e", " ", "d", "e", "s", "i", "r", "e", "d">>,
          <<"h", "p", "f", "p", " ", "s", "p">>,
          <<"h", "p", "f", "p", " ", "s", "e", "t">>,
          <<"h", "i", "g", "h", " ", "p", "r", "e", "s", "s", "u", "r", "e", " ", "f", "u", "e", "l", " ", "p", "u", "m", "p", " ", "t", "a", "r", "g", "e", "t">>,
          <<"h", "i", "g", "h", " ", "p", "r", "e", "s", "s", "u", "r", "e", " ", "f", "u", "e", "l", " ", "p", "u", "m", "p", " ", "s", "e", "t", "p", "o", "i", "n", "t">>>>,
     afr_target |->
        <<<<"a", "f", "r", " ", "t", "a", "r", "g", "e", "t">>,
          <<"a", "f", "r", "_", "t", "a", "r", "g", "e", "t">>,
          <<"a", "i", "r", " ", "f", "u", "e", "l", " ", "r", "a", "t", "i", "o", " ", "t", "a", "r", "g", "e", "t">>>>,
     pedal |->
        <<<<"p", "e", "d", "a", "l">>,
          <<"a", "c", "c", "e", "l", " ", "p", "e", "d", "a", "l">>,
          <<"a", "c", "c", "e", "l", "e", "r", "a", "t", "o", "r", " ", "p", "e", "d", "a", "l">>,
          <<"a", "c", "c", "e", "l", "_", "p", "e", "d", "a", "l">>,
          <<"p", "e", "d", "a", "l", " ", "p", "o", "s", "i", "t", "i", "o", "n">>>>,
     throttle |->
        <<<<"t", "h", "r", "o", "t", "t", "l", "e">>,
          <<"t", "h", "r", "o", "t", "t", "l", "e", " ", "p", "o", "s", "i", "t", "i", "o", "n">>,
          <<"t", "h", "r", "o", "t", "t", "l", "e", "_", "p", "o", "s", "i", "t", "i", "o", "n">>,
          <<"t", "h", "r", "o", "t", "t", "l", "e", " ", "a", "n", "g", "l", "e">>,
          <<"t", "h", "r", "o", "t", "t", "l", "e", "_", "a", "n", "g", "l", "e">>>>]

\* keyword.startsWith('^')
IsStart(keyword) == Len(keyword) > 0 /\ keyword[1] = "^"

\* hl.startsWith(kw)
startsWith(hl, kw) == Len(hl) >= Len(kw) /\ SubSeq(hl, 1, Len(kw)) = kw

\* the predicate of headers.find(h => ...) for one keyword
HeaderMatches(h, keyword, exclude) ==
    LET kw == toLowerCase(IF IsStart(keyword) THEN Tail(keyword) ELSE keyword)
        hl == toLowerCase(h)
    IN  /\ ~\E ex \in exclude : includes(hl, ex)
        /\ IF IsStart(keyword) THEN startsWith(hl, kw) ELSE includes(hl, kw)

findColumnAnyKeyword(hs, keywords, exclude) ==
    LET hits == {k \in 1..Len(hs) :
                    \E n \in 1..Len(keywords) :
                        HeaderMatches(hs[k], keywords[n], exclude)}
    IN  IF hits = {} THEN <<>> ELSE hs[CHOOSE a \in hits : \A b \in hits : a <= b]

\* findColumn: the first header that matches the first keyword that has a
\* match (an empty header is falsy and is never returned), <<>> for null;
\* matches[n] are the indexes of the headers that match keyword n
findColumn(hs, keywords, exclude) ==
    LET Found(matches) ==
            LET hits == {n \in DOMAIN matches : matches[n] # {}}
                n0   == CHOOSE a \in hits : \A b \in hits : a <= b
            IN  IF hits = {} THEN <<>>
                ELSE hs[CHOOSE a \in matches[n0] : \A b \in matches[n0] : a <= b]
    IN  Only({Found(matches) :
              matches \in {[n \in 1..Len(keywords) |->
                              {k \in 1..Len(hs) :
                                  /\ HeaderMatches(hs[k], keywords[n], exclude)
                                  /\ hs[k] # <<>>}]}})

BoostExclude == {<<"p", "o", "s", "t", " ", "t", "h", "r", "o", "t", "t", "l", "e">>,
                 <<"p", "o", "s", "t", "-", "t", "h", "r", "o", "t", "t", "l", "e">>}

\* columns[key] = findColumn(headers, keywords, exclude)
ResolveColumns(hs) ==
    [chan \in Channels |->
        findColumn(hs, COLUMN_MAP[chan], IF chan = "boost" THEN BoostExclude ELSE {})]

\* detectBoostUnit, the samples in tenths
detectBoostUnit(columnName, sampleValues) ==
    LET lower == toLowerCase(columnName)
        valid == {sampleValues[k] : k \in {m \in 1..Len(sampleValues) :
                                              sampleValues[m] > 0}}
        maxVal == CHOOSE a \in valid : \A b \in valid : a >= b
    IN  IF columnName = <<>> THEN "psi"
        ELSE IF includes(lower, <<"b", "a", "r">>) THEN "bar"
        ELSE IF includes(lower, <<"k", "p", "a">>) THEN "kpa"
        ELSE IF includes(lower, <<"p", "s", "i">>) THEN "psi"
        ELSE IF valid # {} /\ maxVal > 500 THEN "kpa"
        ELSE IF valid # {} /\ maxVal < 50 THEN "bar"
        ELSE "psi"

\* a data line read through the resolved columns: num(row, col) of each
\* channel and of each timing column
ReadRow(hs, vals, cols, tCols) ==
    LET cellNum(chan) == IF cols[chan] = <<>> THEN NaN
                         ELSE parseFloat(CellOf(hs, vals, cols[chan]),
                                         ChannelDecimals(chan))
    IN  [time |-> cellNum("time"), load |-> cellNum("load"),
         boost |-> cellNum("boost"), pedal |-> cellNum("pedal"),
         throttle |-> cellNum("throttle"), afr |-> cellNum("afr"),
         afr_target |-> cellNum("afr_target"), hpfp |-> cellNum("hpfp"),
         hpfp_target |-> cellNum("hpfp_target"), iat |-> cellNum("iat"),
         timing |-> [k \in 1..Len(tCols) |-> parseFloat(CellOf(hs, vals, tCols[k]), 0)]]

RECURSIVE NumericCells(_, _, _)
\* rows.map(r => num(r, col)).filter(v => !isNaN(v))
NumericCells(rs, cols, ch) ==
    IF Len(rs) = 0 THEN <<>>
    ELSE LET v == num(rs[1], cols, ch)
             rest == NumericCells(Tail(rs), cols, ch)
         IN  IF ~isNaN(v) THEN <<v.v>> \o rest ELSE rest

BoostSamplesOfEveryRow(rs, cols) == NumericCells(rs, cols, "boost")

\* rows.slice(0, 50).map(r => parseFloat(r[columns.boost])).filter(v => !isNaN(v))
BoostSamples(rs, cols) ==
    NumericCells(SubSeq(rs, 1, Min(50, Len(rs))), cols, "boost")

\* what parseCsv returns for a text of two or more non-blank lines: lines,
\* headers, columns, timingColumns, the cells of each line, rows and
\* boostSamples are each computed once, in the order of the code
parseCsv(text) ==
    LET Row(line, hs, cols, tCols) ==
            Only({ReadRow(hs, vals, cols, tCols) : vals \in {parseRow(line)}})
        Returned(hs, cols, tCols, rs) ==
            Only({[headers |-> hs, rows |-> rs, columns |-> cols,
                   timingColumns |-> tCols,
                   boostUnit |-> detectBoostUnit(cols.boost, boostSamples)] :
                  boostSamples \in {BoostSamples(rs, cols)}})
        Resolved(lines, hs, cols, tCols) ==
            Only({Returned(hs, cols, tCols, rs) :
                  rs \in {[k \in 1..(Len(lines) - 1) |->
                              Row(lines[k + 1], hs, cols, tCols)]}})
        Headed(lines, hs) ==
            Only({Resolved(lines, hs, cols, tCols) :
                  cols \in {ResolveColumns(hs)}, tCols \in {findTimingColumns(hs)}})
        Split(lines) == Only({Headed(lines, hs) : hs \in {parseRow(lines[1])}})
    IN  Only({Split(lines) : lines \in {NonBlankLines(text)}})

\* ----------------------------------------------------------------- analyzeIat

IAT_RISK_F    == 140
IAT_CAUTION_F == 120

FahrenheitMarkers ==
    {<<"deg", "f">>, <<"[", "f", "]">>, <<"(", "f", ")">>, <<"_", "f", "]">>,
     <<" ", "f", "]">>,
     <<"_", "f", "a", "h", "r", "e", "n", "h", "e", "i", "t">>}
CelsiusMarkers ==
    {<<"deg", "c">>, <<"[", "c", "]">>, <<"(", "c", ")">>, <<"_", "c", "]">>,
     <<" ", "c", "]">>, <<"_", "c", "e", "l", "s", "i", "u", "s">>}

detectIatUnitUnmarked(colName) == ""

\* 'F', 'C', or "" for null
detectIatUnit(colName) ==
    LET lower == toLowerCase(colName)
    IN  IF colName = <<>> THEN ""
        ELSE IF \E m \in FahrenheitMarkers : includes(lower, m) THEN "F"
        ELSE IF \E m \in CelsiusMarkers : includes(lower, m) THEN "C"
        ELSE ""

IatMissing == [value |-> Null, unit |-> "F", peak_f |-> Null, status |-> "Safe",
               note |-> "IAT column not found in log."]

\* value is in degrees of the source unit, peak_f in tenths of a degree F
analyzeIat(rs, cols, bUnit) ==
    LET allValues     == NumericCells(rs, cols, "iat")
        colUnit       == detectIatUnit(cols.iat)
        likelyCelsius == IF colUnit # "" THEN colUnit = "C"
                         ELSE \A k \in 1..Len(allValues) : allValues[k] <= 100
        unit          == IF likelyCelsius THEN "C" ELSE "F"
        demandRows    == DemandRows(rs, cols, bUnit)
        sourceValues  == IF Len(demandRows) >= 5
                         THEN NumericCells(demandRows, cols, "iat") ELSE allValues
        maxRaw        == MaxSeq(sourceValues)
        peakF         == IF likelyCelsius THEN maxRaw * 18 + 320 ELSE maxRaw * 10
        status        == IF peakF >= IAT_RISK_F * 10 THEN "Risk"
                         ELSE IF peakF >= IAT_CAUTION_F * 10 THEN "Caution"
                         ELSE "Safe"
    IN  IF cols.iat = <<>> THEN IatMissing
        ELSE IF Len(allValues) = 0
        THEN [value |-> Null, unit |-> "F", peak_f |-> Null, status |-> "Safe",
              note |-> "No valid IAT readings."]
        ELSE IF Len(sourceValues) = 0
        THEN [value |-> Null, unit |-> unit, peak_f |-> Null, status |-> "Safe",
              note |-> "No valid IAT readings during engine demand."]
        ELSE [value |-> Num(maxRaw), unit |-> unit, peak_f |-> Num(peakF),
              status |-> status,
              note |-> IF status = "Risk"
                       THEN "Peak IAT exceeds safe operating threshold."
                       ELSE IF status = "Caution" THEN "Peak IAT is elevated"
                       ELSE ""]

\* --------------------------------------------------- analyzeTimingCorrections
\*
\* timingColumns is the sequence of the detected headers; row.timing[k] is the
\* cell under the k-th of them, in whole degrees.  worstCyl is the index of the
\* column, 0 for null.

TIMING_RISK_DEG    == 0 - 4
TIMING_CAUTION_DEG == 0 - 2

TimingStart == [worstDeg |-> 0, worstCyl |-> 0, pullEvents |-> 0]

RECURSIVE TimingCols(_, _, _)
\* for (const col of timingColumns), from column k on
TimingCols(acc, cells, k) ==
    IF k > Len(cells) THEN acc
    ELSE LET val == cells[k]
             acc1 == IF isNaN(val) THEN acc
                     ELSE [worstDeg   |-> IF val.v < acc.worstDeg THEN val.v
                                          ELSE acc.worstDeg,
                           worstCyl   |-> IF val.v < acc.worstDeg THEN k
                                          ELSE acc.worstCyl,
                           pullEvents |-> IF val.v <= TIMING_CAUTION_DEG
                                          THEN acc.pullEvents + 1
                                          ELSE acc.pullEvents]
         IN  TimingCols(acc1, cells, k + 1)

TimingRowEveryRow(acc, row, nCols, cols, unit) ==
    TimingCols(acc, SubSeq(row.timing, 1, nCols), 1)

\* one iteration of `for (const row of rows)`
TimingRow(acc, row, nCols, cols, unit) ==
    LET load     == num(row, cols, "load")
        boost    == normalizeBoostToPsi(num(row, cols, "boost"), unit)
        p        == num(row, cols, "pedal")
        t        == num(row, cols, "throttle")
        l        == IF isNaN(load) THEN 0 ELSE load.v
        b        == IF isNaN(boost) THEN 0 ELSE boost.v
    IN  IF ~isNaN(p) /\ p.v < 1 /\ (IF ~isNaN(t) THEN t.v < 5 ELSE TRUE) THEN acc
        ELSE IF l < LOAD_TIMING /\ b <= BOOST_DEMAND * PsiScale THEN acc
        ELSE TimingCols(acc, SubSeq(row.timing, 1, nCols), 1)

RECURSIVE TimingLoop(_, _, _, _, _)
TimingLoop(acc, rs, nCols, cols, unit) ==
    IF Len(rs) = 0 THEN acc
    ELSE TimingLoop(TimingRow(acc, rs[1], nCols, cols, unit),
                    Tail(rs), nCols, cols, unit)

analyzeTimingCorrections(rs, tCols, cols, unit) ==
    LET acc    == TimingLoop(TimingStart, rs, Len(tCols), cols, unit)
        status == IF acc.worstDeg <= TIMING_RISK_DEG THEN "Risk"
                  ELSE IF acc.worstDeg <= TIMING_CAUTION_DEG THEN "Caution"
                  ELSE "Safe"
    IN  IF Len(tCols) = 0
        THEN [max_correction |-> Null, cylinders |-> 0, pull_events |-> 0,
              status |-> "Safe", note |-> ""]
        ELSE [max_correction |-> Num(acc.worstDeg), cylinders |-> acc.worstCyl,
              pull_events |-> acc.pullEvents, status |-> status,
              note |-> IF status # "Safe" THEN "Worst timing pull under load"
                       ELSE ""]

\* ------------------------------------------------------------ buildChartData
\*
\* Row indexes are the code's: rows[j] of the code is rs[j + 1].

MAX_POINTS     == 150
CHART_PULL_DEG == 0 - 3

\* hpfpPeak: the largest positive actual pressure when there is an actual
\* column and no target column, null otherwise
HpfpPeak(rs, cols) ==
    LET valid == {k \in 1..Len(rs) : /\ ~isNaN(num(rs[k], cols, "hpfp"))
                                     /\ rs[k].hpfp.v > 0}
    IN  IF cols.hpfp # <<>> /\ cols.hpfp_target = <<>> /\ valid # {}
        THEN Num(CHOOSE x \in {rs[k].hpfp.v : k \in valid} :
                    \A k \in valid : rs[k].hpfp.v <= x)
        ELSE Null

\* dropPct of a row with a positive actual pressure, as the fraction n / d
ChartDropOf(row, cols, hpfpPeak) ==
    LET a == num(row, cols, "hpfp")
        t == num(row, cols, "hpfp_target")
    IN  IF cols.hpfp_target # <<>>
        THEN (IF ~isNaN(t) /\ t.v > 1000 THEN [n |-> t.v - a.v, d |-> t.v]
              ELSE [n |-> 0, d |-> 1])
        ELSE IF hpfpPeak.ok THEN [n |-> hpfpPeak.v - a.v, d |-> hpfpPeak.v]
        ELSE [n |-> 0, d |-> 1]

\* for (let j = 0; j < rows.length; j++) ... if (dropPct > worstDrop) ...: the
\* loop ends with the largest drop of the rows that have a positive actual
\* pressure and the first index that reaches it, or with 0 and -1 when no drop
\* is above 0
WorstHpfpScan(rs, cols, hpfpPeak) ==
    LET valid == {j \in 0..(Len(rs) - 1) :
                     /\ ~isNaN(num(rs[j + 1], cols, "hpfp"))
                     /\ rs[j + 1].hpfp.v > 0}
        drops == {ChartDropOf(rs[j + 1], cols, hpfpPeak) : j \in valid}
        worstDrop == CHOOSE d \in drops : \A e \in drops : e.n * d.d <= d.n * e.d
        reach == {j \in valid :
                     LET e == ChartDropOf(rs[j + 1], cols, hpfpPeak)
                     IN  e.n * worstDrop.d = worstDrop.n * e.d}
    IN  IF valid = {} \/ worstDrop.n <= 0
        THEN [worstDrop |-> DropStart, worstHpfpRowIdx |-> 0 - 1]
        ELSE [worstDrop |-> worstDrop,
              worstHpfpRowIdx |-> CHOOSE j \in reach : \A j2 \in reach : j <= j2]

WorstHpfpRowIdxFirstAtRisk(rs, cols) ==
    LET hpfpPeak == HpfpPeak(rs, cols)
        atRisk == {j \in 0..(Len(rs) - 1) :
                      /\ ~isNaN(num(rs[j + 1], cols, "hpfp"))
                      /\ rs[j + 1].hpfp.v > 0
                      /\ LET e == ChartDropOf(rs[j + 1], cols, hpfpPeak)
                         IN  e.n * 100 >= HPFP_DROP_RISK_PCT * e.d}
    IN  IF cols.hpfp = <<>> \/ atRisk = {} THEN 0 - 1
        ELSE CHOOSE j \in atRisk : \A j2 \in atRisk : j <= j2

\* the index of the single worst HPFP drop row, -1 when there is none or it is
\* below the risk threshold
WorstHpfpRowIdx(rs, cols) ==
    LET w == WorstHpfpScan(rs, cols, HpfpPeak(rs, cols))
    IN  IF cols.hpfp = <<>> THEN 0 - 1
        ELSE IF w.worstDrop.n * 100 < HPFP_DROP_RISK_PCT * w.worstDrop.d THEN 0 - 1
        ELSE w.worstHpfpRowIdx

\* const step = Math.max(1, Math.floor(rows.length / maxPoints))
ChartStep(n, maxPoints) == Max(1, n \div maxPoints)

\* the rows scanned for the point emitted at i0: i0 <= j < i0 + step, j < n
ChartChunk(i0, step, n) == {j \in i0..(i0 + step - 1) : j < n}

\* isWot(l, bPsi, p, th) && a > lean_caution
ChartRowIsLean(row, cols, isLambda, unit, th) ==
    LET a == num(row, cols, "afr")
    IN  /\ RowIsWot(row, cols, unit)
        /\ ~isNaN(a)
        /\ toAfr(a.v, isLambda) > th.lean_caution * 10

\* the row is not lifted, is under load and one of its timing cells is <= -3
ChartRowIsPull(row, tCols, cols, unit) ==
    LET l  == num(row, cols, "load")
        b  == normalizeBoostToPsi(num(row, cols, "boost"), unit)
        pl == num(row, cols, "pedal")
        pth == num(row, cols, "throttle")
    IN  /\ Len(tCols) > 0
        /\ (isNaN(pl) \/ pl.v >= 1 \/ (isNaN(pth) \/ pth.v >= 5))
        /\ ((~isNaN(l) /\ l.v >= LOAD_TIMING)
            \/ (~isNaN(b) /\ b.v > BOOST_DEMAND * PsiScale))
        /\ \E k \in 1..Len(tCols) :
              ~isNaN(row.timing[k]) /\ row.timing[k].v <= CHART_PULL_DEG

ChartPointSampledRowOnly(i0, step, worstIdx, rs, cols, isLambda, unit, th, tCols) ==
    LET row       == rs[i0 + 1]
        rawAfr    == num(row, cols, "afr")
        rawTarget == num(row, cols, "afr_target")
        rawTime   == num(row, cols, "time")
        boostPsi  == normalizeBoostToPsi(num(row, cols, "boost"), unit)
    IN  [time      |-> IF ~isNaN(rawTime) THEN rawTime ELSE [ok |-> FALSE, v |-> i0],
         afrActual |-> IF ~isNaN(rawAfr) /\ toAfr(rawAfr.v, isLambda) < FUEL_CUT_AFR * 10
                       THEN Num(RoundDiv(toAfr(rawAfr.v, isLambda), 10)) ELSE Null,
         afrTarget |-> IF ~isNaN(rawTarget)
                       THEN Num(RoundDiv(toAfr(rawTarget.v, isLambda), 10)) ELSE Null,
         boost     |-> IF ~isNaN(boostPsi)
                       THEN Num(RoundDiv(boostPsi.v, PsiScale \div 10)) ELSE Null,
         isLeanWarning   |-> ChartRowIsLean(row, cols, isLambda, unit, th),
         isHpfpWarning   |-> worstIdx = i0,
         isTimingWarning |-> ChartRowIsPull(row, tCols, cols, unit)]

\* the point pushed for the chunk that starts at index i0; time is the time
\* cell or, when there is none, the index as a string; afrActual and afrTarget
\* are in hundredths, boost in tenths of a psi
ChartPoint(i0, step, worstIdx, rs, cols, isLambda, unit, th, tCols) ==
    LET row       == rs[i0 + 1]
        rawAfr    == num(row, cols, "afr")
        rawTarget == num(row, cols, "afr_target")
        rawTime   == num(row, cols, "time")
        boostPsi  == normalizeBoostToPsi(num(row, cols, "boost"), unit)
        chunk     == ChartChunk(i0, step, Len(rs))
    IN  [time      |-> IF ~isNaN(rawTime) THEN rawTime ELSE [ok |-> FALSE, v |-> i0],
         afrActual |-> IF ~isNaN(rawAfr) /\ toAfr(rawAfr.v, isLambda) < FUEL_CUT_AFR * 10
                       THEN Num(RoundDiv(toAfr(rawAfr.v, isLambda), 10)) ELSE Null,
         afrTarget |-> IF ~isNaN(rawTarget)
                       THEN Num(RoundDiv(toAfr(rawTarget.v, isLambda), 10)) ELSE Null,
         boost     |-> IF ~isNaN(boostPsi)
                       THEN Num(RoundDiv(boostPsi.v, PsiScale \div 10)) ELSE Null,
         isLeanWarning   |-> \E j \in chunk :
                                ChartRowIsLean(rs[j + 1], cols, isLambda, unit, th),
         isHpfpWarning   |-> worstIdx >= i0 /\ worstIdx < i0 + step,
         isTimingWarning |-> \E j \in chunk :
                                ChartRowIsPull(rs[j + 1], tCols, cols, unit)]

\* for (let i = 0; i < rows.length; i += step) chartData.push(...)
buildChartData(rs, cols, isLambda, unit, maxPoints, th, tCols) ==
    LET step     == ChartStep(Len(rs), maxPoints)
        worstIdx == WorstHpfpRowIdx(rs, cols)
        starts   == {i0 \in 0..(Len(rs) - 1) : i0 % step = 0}
    IN  [k \in 1..Cardinality(starts) |->
            ChartPoint((k - 1) * step, step, worstIdx, rs, cols, isLambda, unit,
                       th, tCols)]

\* ---------------------------------------------------------------- analyzeLog

\* sampleAfrs.length > 0 && sampleAfrs.every(v => v < 3.0), over rows.slice(0, 30)
IsLambdaAfr(rs, cols) ==
    LET sampleAfrs == NumericCells(SubSeq(rs, 1, Min(30, Len(rs))), cols, "afr")
    IN  Len(sampleAfrs) > 0 /\ \A k \in 1..Len(sampleAfrs) : sampleAfrs[k] < 300

LogResultWithoutTiming(rs, mAfr, mHpfp, mIat, mTiming) ==
    LET overall == worstStatus(<<mAfr.status, mHpfp.status, mIat.status>>)
    IN  [row_count |-> Len(rs),
         status    |-> overall,
         metrics   |-> [afr |-> mAfr, hpfp |-> mHpfp, iat |-> mIat,
                        timingCorrections |-> mTiming],
         summary   |-> [afr_status |-> mAfr.status, hpfp_status |-> mHpfp.status,
                        iat_status |-> mIat.status,
                        timing_status |-> mTiming.status,
                        overall_safety_score |-> overall]]

\* the object analyzeLog returns, without the chart data and the key points
LogResult(rs, mAfr, mHpfp, mIat, mTiming) ==
    LET overall == worstStatus(<<mAfr.status, mHpfp.status, mIat.status,
                                 mTiming.status>>)
    IN  [row_count |-> Len(rs),
         status    |-> overall,
         metrics   |-> [afr |-> mAfr, hpfp |-> mHpfp, iat |-> mIat,
                        timingCorrections |-> mTiming],
         summary   |-> [afr_status |-> mAfr.status, hpfp_status |-> mHpfp.status,
                        iat_status |-> mIat.status,
                        timing_status |-> mTiming.status,
                        overall_safety_score |-> overall]]

\* ------------------------------------------------------------- parked values

NoRegime     == [isDemand |-> FALSE, isWot |-> FALSE]
NoThresholds == [stoich |-> 0, lean_risk |-> 0, lean_caution |-> 0,
                 rich_risk |-> 0, rich_caution |-> 0]
NoWorst      == [ab |-> "", ba |-> "", ab_c |-> "", a_bc |-> "", aa |-> "",
                 aSafe |-> "", abc |-> ""]

ClassParked ==
    /\ sensors = [load |-> NaN, boost |-> NaN, pedal |-> NaN, throttle |-> NaN]
    /\ regime = NoRegime

ThreshParked ==
    /\ ethanol = Absent
    /\ ethanolB = Absent
    /\ thresholds = NoThresholds
    /\ thresholdsB = NoThresholds

WorstParked ==
    /\ statuses = <<"", "", "">>
    /\ worst = NoWorst

NoColumns == [ch \in Channels |-> <<>>]
NoAfr     == [AfrMissing EXCEPT !.status = "", !.note = ""]
NoHpfp    == [HpfpMissing EXCEPT !.status = "", !.note = ""]
NoIat     == [IatMissing EXCEPT !.status = "", !.note = ""]
NoTiming  == [max_correction |-> Null, cylinders |-> 0, pull_events |-> 0,
              status |-> "", note |-> ""]
NoResult  == LogResult(<<>>, NoAfr, NoHpfp, NoIat, NoTiming)

\* the locals and results of analyzeLog before it has run
LogIdle ==
    /\ isLambdaAfr = FALSE
    /\ i = 1
    /\ afrLoop = AfrStart
    /\ maxDropPct = DropStart
    /\ afr = NoAfr /\ hpfp = NoHpfp /\ iat = NoIat /\ timing = NoTiming
    /\ result = NoResult
    /\ chartData = <<>>

\* parseCsv is not being followed: its text, header cells and error are empty
ParseParked ==
    /\ csvText = <<>> /\ headers = <<>> /\ error = ""

\* an empty localStorage
NoItems == [key \in {} |-> <<>>]

StorageParked ==
    /\ localStorage = NoItems
    /\ now = 1

LogParked ==
    /\ rows = <<>>
    /\ columns = NoColumns
    /\ timingColumns = <<>>
    /\ boostUnit = "psi"
    /\ LogIdle /\ ParseParked

\* ============================================================================
\* Row classification: isDemand and isWot applied to one row's readings
\* ============================================================================

LoadVals     == {NaN} \cup {Num(n) : n \in {0, 49, 50, 69, 70, 80}}
BoostPsiVals == {NaN} \cup {Num(n * (PsiScale \div 10)) : n \in {0, 20, 21, 80, 81, 100}}
PedalVals    == {NaN} \cup {Num(n) : n \in {0, 1, 49, 50, 100}}
ThrottleVals == {NaN} \cup {Num(n) : n \in {0, 4, 5, 29, 30, 90}}

ClassifyInit ==
    /\ pc = "isDemand"
    /\ StorageParked
    /\ sensors \in [load : LoadVals, boost : BoostPsiVals,
                    pedal : PedalVals, throttle : ThrottleVals]
    /\ regime = NoRegime
    /\ ThreshParked /\ WorstParked /\ LogParked

CallIsDemand ==
    /\ pc = "isDemand"
    /\ regime' = [regime EXCEPT !.isDemand =
                    isDemand(sensors.load, sensors.boost, sensors.pedal, sensors.throttle)]
    /\ pc' = "isWot"
    /\ UNCHANGED <<storageVars, sensors, threshVars, worstVars, logVars>>

CallIsWot ==
    /\ pc = "isWot"
    /\ regime' = [regime EXCEPT !.isWot =
                    isWot(sensors.load, sensors.boost, sensors.pedal, sensors.throttle)]
    /\ pc' = "classified"
    /\ UNCHANGED <<storageVars, sensors, threshVars, worstVars, logVars>>

ClassifyNext == CallIsDemand \/ CallIsWot

SpecClassify == ClassifyInit /\ [][ClassifyNext]_vars

\* the readings with a missing load or boost counted as 0
LoadOr0  == IF isNaN(sensors.load) THEN 0 ELSE sensors.load.v
BoostOr0 == IF isNaN(sensors.boost) THEN 0 ELSE sensors.boost.v
BothLifted ==
    /\ sensors.pedal.ok /\ sensors.throttle.ok
    /\ sensors.pedal.v < 1 /\ sensors.throttle.v < 5

\* C1: isDemand is true exactly when (load >= 50 or boost > 2 psi) and pedal and
\* throttle are not both present with pedal < 1 and throttle < 5; with the
\* throttle reading missing the row is classified by load and boost alone.
C1_DemandUnlessBothPresentAndLifted ==
    pc \in {"isWot", "classified"} =>
        (regime.isDemand <=>
            ((LoadOr0 >= 50 \/ BoostOr0 > 2 * PsiScale) /\ ~BothLifted))

\* C2: isWot is false when pedal is present and < 50, false when throttle is
\* present and < 30, and otherwise true exactly when load >= 70 or boost > 8 psi.
C2_WotNeedsDriverIntent ==
    pc = "classified" =>
        /\ (sensors.pedal.ok /\ sensors.pedal.v < 50) => ~regime.isWot
        /\ (sensors.throttle.ok /\ sensors.throttle.v < 30) => ~regime.isWot
        /\ (~(sensors.pedal.ok /\ sensors.pedal.v < 50)
            /\ ~(sensors.throttle.ok /\ sensors.throttle.v < 30))
           => (regime.isWot <=> (LoadOr0 >= 70 \/ BoostOr0 > 8 * PsiScale))

\* a boost-only WOT row: load missing, boost 8.1 psi, pedal 50, throttle 30
C2_Witness ==
    /\ pc = "classified"
    /\ sensors.load = NaN /\ sensors.boost = Num(81 * (PsiScale \div 10))
    /\ sensors.pedal = Num(50) /\ sensors.throttle = Num(30)
    /\ regime.isWot

\* C24: every row isWot classifies as WOT is classified Demand by isDemand,
\* whatever the load, boost, pedal and throttle readings, missing ones included.
C24_WotRowsAreDemandRows ==
    pc = "classified" => (regime.isWot => regime.isDemand)

\* WOT by boost alone with the load and the throttle missing: 8.1 psi, pedal 50
C24_Witness ==
    /\ pc = "classified"
    /\ sensors.load = NaN /\ sensors.boost = Num(81 * (PsiScale \div 10))
    /\ sensors.pedal = Num(50) /\ sensors.throttle = NaN
    /\ regime.isWot /\ regime.isDemand

\* ============================================================================
\* getAfrThresholds applied to the ethanol value of two car profiles
\* ============================================================================

MinEthanolInput == 0 - 5
MaxEthanolInput == 100

EthanolInputs ==
    {Absent, NonNumeric} \cup {Eth(n) : n \in MinEthanolInput..MaxEthanolInput}

ThreshInit ==
    /\ pc = "getAfrThresholds"
    /\ StorageParked
    /\ ethanol \in EthanolInputs
    /\ ethanolB \in EthanolInputs
    /\ thresholds = NoThresholds
    /\ thresholdsB = NoThresholds
    /\ ClassParked /\ WorstParked /\ LogParked

CallGetAfrThresholds ==
    /\ pc = "getAfrThresholds"
    /\ thresholds' = getAfrThresholds(ethanol)
    /\ pc' = "getAfrThresholdsB"
    /\ UNCHANGED <<storageVars, ethanol, ethanolB, thresholdsB, classVars, worstVars, logVars>>

CallGetAfrThresholdsB ==
    /\ pc = "getAfrThresholdsB"
    /\ thresholdsB' = getAfrThresholds(ethanolB)
    /\ pc' = "thresholdsDone"
    /\ UNCHANGED <<storageVars, ethanol, ethanolB, thresholds, classVars, worstVars, logVars>>

ThreshNext == CallGetAfrThresholds \/ CallGetAfrThresholdsB

SpecThresholds == ThreshInit /\ [][ThreshNext]_vars

InRange(eth) == eth.kind = "num" /\ eth.v >= 0 /\ eth.v <= 85

\* C7: for ethanol in [0, 85] the stoichiometric AFR is strictly decreasing in
\* ethanol, is 14.7 at ethanol = 0 and 9.8 at ethanol = 85.
C7_StoichDecreasingFrom147To98 ==
    pc = "thresholdsDone" =>
        /\ (InRange(ethanol) /\ InRange(ethanolB) /\ ethanol.v < ethanolB.v)
           => thresholds.stoich > thresholdsB.stoich
        /\ ethanol = Eth(0) => thresholds.stoich = 1470
        /\ ethanol = Eth(85) => thresholds.stoich = 980

\* baseline * stoich / 14.7 without any rounding: t is that product exactly
ExactlyScaled(t, base, stoich) == t * 1470 = base * stoich

\* t is a hundredth nearest to baseline * stoich / 14.7
NearestScaled(t, base, stoich) ==
    /\ 2 * (t * 1470 - base * stoich) <= 1470
    /\ 2 * (base * stoich - t * 1470) <= 1470

\* C8 as stated: for ethanol in [0, 85] each threshold equals its E0 baseline
\* (13.8, 13.0, 10.0, 10.8) times stoich / 14.7, and lean_risk at ethanol 40 is
\* 11.62.
C8_ThresholdsAreBaselineTimesRatio ==
    (pc \in {"getAfrThresholdsB", "thresholdsDone"} /\ InRange(ethanol)) =>
        /\ ExactlyScaled(thresholds.lean_risk, 1380, thresholds.stoich)
        /\ ExactlyScaled(thresholds.lean_caution, 1300, thresholds.stoich)
        /\ ExactlyScaled(thresholds.rich_risk, 1000, thresholds.stoich)
        /\ ExactlyScaled(thresholds.rich_caution, 1080, thresholds.stoich)
        /\ ethanol = Eth(40) => thresholds.lean_risk = 1162

\* C8 amended: for ethanol in [0, 85] each threshold is its E0 baseline times
\* (returned stoich) / 14.7 rounded to two decimals, and lean_risk at ethanol 40
\* is 11.63.
C8_ThresholdsAreRoundedBaselineTimesRatio ==
    (pc \in {"getAfrThresholdsB", "thresholdsDone"} /\ InRange(ethanol)) =>
        /\ NearestScaled(thresholds.lean_risk, 1380, thresholds.stoich)
        /\ NearestScaled(thresholds.lean_caution, 1300, thresholds.stoich)
        /\ NearestScaled(thresholds.rich_risk, 1000, thresholds.stoich)
        /\ NearestScaled(thresholds.rich_caution, 1080, thresholds.stoich)
        /\ ethanol = Eth(40) => thresholds.lean_risk = 1163

C8_Witness ==
    /\ pc = "thresholdsDone"
    /\ ethanol = Eth(40)
    /\ thresholds.stoich = 1239
    /\ thresholds.lean_risk = 1163

OutOfRange(eth) == eth.kind = "num" /\ (eth.v < 0 \/ eth.v > 85)

\* C9 as stated: an ethanol value outside [0, 85] gets the thresholds of the
\* default ethanol 10, the same as an absent or non-numeric value.
C9_OutOfRangeEthanolIsDefaulted ==
    (pc = "thresholdsDone" /\ OutOfRange(ethanol)
        /\ ethanolB \in {Absent, NonNumeric, Eth(10)})
    => thresholds = thresholdsB

\* C9 amended: an ethanol value above 85 gets the thresholds of ethanol 85 and a
\* value below 0 the E0 baselines (stoich 14.7); only an absent, non-numeric or
\* zero value gets the thresholds of the default ethanol 10.
C9_OutOfRangeEthanolIsClamped ==
    pc = "thresholdsDone" =>
        /\ (ethanol.kind = "num" /\ ethanol.v > 85 /\ ethanolB = Eth(85))
           => thresholds = thresholdsB
        /\ (ethanol.kind = "num" /\ ethanol.v < 0)
           => thresholds = [stoich |-> 1470, lean_risk |-> 1380,
                            lean_caution |-> 1300, rich_risk |-> 1000,
                            rich_caution |-> 1080]
        /\ (ethanol \in {Absent, NonNumeric, Eth(0)} /\ ethanolB = Eth(10))
           => thresholds = thresholdsB
        /\ (OutOfRange(ethanol) /\ ethanolB = Eth(10))
           => thresholds # thresholdsB

C9_Witness ==
    /\ pc = "thresholdsDone"
    /\ ethanol = Eth(100) /\ ethanolB = Eth(85)
    /\ thresholds.stoich = 980
    /\ thresholds = thresholdsB

\* ============================================================================
\* worstStatus applied to the statuses a, b, c
\* ============================================================================

WorstInit ==
    /\ pc = "worstStatus"
    /\ StorageParked
    /\ statuses \in [1..3 -> Statuses \cup {""}]
    /\ worst = NoWorst
    /\ ClassParked /\ ThreshParked /\ LogParked

CallWorstStatus ==
    /\ pc = "worstStatus"
    /\ LET a == statuses[1]
           b == statuses[2]
           c == statuses[3]
       IN  worst' = [ab    |-> worstStatus(<<a, b>>),
                     ba    |-> worstStatus(<<b, a>>),
                     ab_c  |-> worstStatus(<<worstStatus(<<a, b>>), c>>),
                     a_bc  |-> worstStatus(<<a, worstStatus(<<b, c>>)>>),
                     aa    |-> worstStatus(<<a, a>>),
                     aSafe |-> worstStatus(<<a, "Safe">>),
                     abc   |-> worstStatus(<<a, b, c>>)]
    /\ pc' = "worstDone"
    /\ UNCHANGED <<storageVars, statuses, classVars, threshVars, logVars>>

WorstNext == CallWorstStatus

SpecWorst == WorstInit /\ [][WorstNext]_vars

\* C6: over {Safe, Caution, Risk} worstStatus is commutative, associative and
\* idempotent, and Safe is its identity.
C6_WorstStatusIsSemilattice ==
    (pc = "worstDone" /\ \A k \in 1..3 : statuses[k] \in Statuses) =>
        /\ worst.ab = worst.ba
        /\ worst.ab_c = worst.a_bc
        /\ worst.aa = statuses[1]
        /\ worst.aSafe = statuses[1]

C6_Witness ==
    /\ pc = "worstDone"
    /\ statuses = <<"Risk", "Caution", "Safe">>
    /\ worst.ab = "Risk" /\ worst.ba = "Risk"
    /\ worst.ab_c = "Risk" /\ worst.a_bc = "Risk"

\* ============================================================================
\* analyzeLog: the steps every run takes
\* ============================================================================

restVars == <<classVars, worstVars, ethanol, ethanolB, thresholdsB, inputVars,
              parseVars>>
idleVars == <<restVars, chartData>>

\* parseCsv has returned; isLambdaAfr and the thresholds are computed
StartAnalyzeLog ==
    /\ pc = "analyzeLog"
    /\ isLambdaAfr' = IsLambdaAfr(rows, columns)
    /\ thresholds' = getAfrThresholds(ethanol)
    /\ pc' = "analyzeAfr"
    /\ UNCHANGED <<storageVars, idleVars, i, afrLoop, maxDropPct, afr, hpfp, iat, timing, result>>

CallAnalyzeAfr ==
    /\ pc = "analyzeAfr"
    /\ afr' = analyzeAfr(rows, columns, isLambdaAfr, thresholds, boostUnit)
    /\ pc' = "analyzeHpfp"
    /\ UNCHANGED <<storageVars, idleVars, thresholds, isLambdaAfr, i, afrLoop, maxDropPct,
                   hpfp, iat, timing, result>>

CallAnalyzeHpfp ==
    /\ pc = "analyzeHpfp"
    /\ hpfp' = analyzeHpfp(rows, columns, boostUnit)
    /\ pc' = "analyzeIat"
    /\ UNCHANGED <<storageVars, idleVars, thresholds, isLambdaAfr, i, afrLoop, maxDropPct,
                   afr, iat, timing, result>>

CallAnalyzeIat ==
    /\ pc = "analyzeIat"
    /\ iat' = analyzeIat(rows, columns, boostUnit)
    /\ pc' = "analyzeTimingCorrections"
    /\ UNCHANGED <<storageVars, idleVars, thresholds, isLambdaAfr, i, afrLoop, maxDropPct,
                   afr, hpfp, timing, result>>

CallAnalyzeTimingCorrections ==
    /\ pc = "analyzeTimingCorrections"
    /\ timing' = analyzeTimingCorrections(rows, timingColumns, columns, boostUnit)
    /\ pc' = "aggregate"
    /\ UNCHANGED <<storageVars, idleVars, thresholds, isLambdaAfr, i, afrLoop, maxDropPct,
                   afr, hpfp, iat, result>>

\* worstStatus of the four metrics and the returned object
Aggregate ==
    /\ pc = "aggregate"
    /\ result' = LogResult(rows, afr, hpfp, iat, timing)
    /\ pc' = "buildChartData"
    /\ UNCHANGED <<storageVars, idleVars, thresholds, isLambdaAfr, i, afrLoop, maxDropPct,
                   afr, hpfp, iat, timing>>

\* chartData: buildChartData(rows, columns, isLambdaAfr, boostUnit, 150,
\* thresholds, timingColumns), and analyzeLog returns
CallBuildChartData ==
    /\ pc = "buildChartData"
    /\ chartData' = buildChartData(rows, columns, isLambdaAfr, boostUnit,
                                   MAX_POINTS, thresholds, timingColumns)
    /\ pc' = "done"
    /\ UNCHANGED <<storageVars, restVars, thresholds, isLambdaAfr, i, afrLoop, maxDropPct,
                   afr, hpfp, iat, timing, result>>

\* ------------------------------------------------------------------- headers

HdrTime      == <<"T", "i", "m", "e">>
HdrLoad      == <<"E", "n", "g", "i", "n", "e", " ", "L", "o", "a", "d">>
HdrAfr       == <<"A", "F", "R">>
HdrAfrTarget == <<"A", "F", "R", " ", "T", "a", "r", "g", "e", "t">>
HdrBoostPsi  == <<"B", "o", "o", "s", "t", " ", "(", "p", "s", "i", ")">>
HdrHpfp      == <<"H", "P", "F", "P", " ", "A", "c", "t", "u", "a", "l">>
HdrHpfpTarget == <<"H", "P", "F", "P", " ", "T", "a", "r", "g", "e", "t">>
HdrIatF      == <<"I", "n", "t", "a", "k", "e", " ", "A", "i", "r", " ",
                  "T", "e", "m", "p", " ", "[", "deg", "F", "]">>
HdrTimingCyl == <<"T", "i", "m", "i", "n", "g", " ", "C", "o", "r", "r", "e",
                  "c", "t", "i", "o", "n", " ", "C", "y", "l">>

HdrPedal     == <<"P", "e", "d", "a", "l">>
HdrThrottle  == <<"T", "h", "r", "o", "t", "t", "l", "e">>

\* headers [Time, Engine Load, AFR, Boost (psi)]
ScenarioAColumns ==
    [NoColumns EXCEPT !.time = HdrTime, !.load = HdrLoad, !.afr = HdrAfr,
                      !.boost = HdrBoostPsi]

BlankRow == [time |-> Num(0), load |-> NaN, boost |-> NaN, pedal |-> NaN,
             throttle |-> NaN, afr |-> NaN, afr_target |-> NaN, hpfp |-> NaN,
             hpfp_target |-> NaN, iat |-> NaN, timing |-> <<>>]

\* the sequences of 1..n elements of S
SeqsUpTo(S, n) == UNION {[1..k -> S] : k \in 1..n}

\* ============================================================================
\* analyzeLog with the loop of analyzeAfr run row by row, on logs that have
\* the columns Time, Engine Load, AFR (or none), Boost (psi) and possibly AFR
\* Target
\* ============================================================================

MaxAfrRows == 3

\* load in %, boost in tenths of a psi, AFR and target in hundredths
AfrRowOf(load, boost, afrCell, target) ==
    [BlankRow EXCEPT !.load = Num(load), !.boost = Num(boost),
                     !.afr = afrCell, !.afr_target = Num(target)]

AfrRowSet ==
    \* WOT rows: load 80 %, boost 10 psi
    {AfrRowOf(80, 100, c, 1250) :
        c \in {NaN, Num(900), Num(1000), Num(1200), Num(1280), Num(1500), Num(1650)}}
    \* WOT rows of a lambda log: 0.85 is AFR 12.495, 1.20 is AFR 17.64
    \cup {AfrRowOf(80, 100, Num(85), 85), AfrRowOf(80, 100, Num(120), 85)}
    \* Demand rows below WOT: load 60 %, boost 3 psi
    \cup {AfrRowOf(60, 30, Num(1500), 1250), AfrRowOf(60, 30, Num(1700), 1250)}
    \* Coast rows: load 10 %, no boost
    \cup {AfrRowOf(10, 0, Num(2000), 1250)}

AfrColumnSets ==
    {ScenarioAColumns,
     [ScenarioAColumns EXCEPT !.afr_target = HdrAfrTarget],
     [ScenarioAColumns EXCEPT !.afr = <<>>]}

AfrInit ==
    /\ pc = "analyzeLog"
    /\ StorageParked
    /\ rows \in SeqsUpTo(AfrRowSet, MaxAfrRows)
    /\ columns \in AfrColumnSets
    /\ timingColumns = <<>>
    /\ boostUnit = "psi"
    /\ ethanol = Eth(10)
    /\ ethanolB = Absent
    /\ thresholds = NoThresholds /\ thresholdsB = NoThresholds
    /\ LogIdle /\ ParseParked
    /\ ClassParked /\ WorstParked

scanFrame == <<idleVars, thresholds, isLambdaAfr, maxDropPct, hpfp, iat, timing,
               result>>

\* if (!afrCol) return { ..., note: 'AFR column not found in log.' }
AfrColumnMissing ==
    /\ pc = "analyzeAfr"
    /\ columns.afr = <<>>
    /\ afr' = AfrMissing
    /\ pc' = "analyzeHpfp"
    /\ UNCHANGED <<storageVars, scanFrame, i, afrLoop>>

\* one iteration of the loop over the rows
AfrScanRow ==
    /\ pc = "analyzeAfr"
    /\ columns.afr # <<>>
    /\ i <= Len(rows)
    /\ afrLoop' = AfrRow(afrLoop, rows[i], columns, isLambdaAfr, thresholds, boostUnit)
    /\ i' = i + 1
    /\ UNCHANGED <<storageVars, scanFrame, pc, afr>>

\* the loop is over: averages, note and the returned object
AfrReturn ==
    /\ pc = "analyzeAfr"
    /\ columns.afr # <<>>
    /\ i > Len(rows)
    /\ afr' = AfrResult(afrLoop)
    /\ pc' = "analyzeHpfp"
    /\ UNCHANGED <<storageVars, scanFrame, i, afrLoop>>

AfrNext ==
    \/ StartAnalyzeLog
    \/ AfrColumnMissing
    \/ AfrScanRow
    \/ AfrReturn
    \/ CallAnalyzeHpfp
    \/ CallAnalyzeIat
    \/ CallAnalyzeTimingCorrections
    \/ Aggregate
    \/ CallBuildChartData

SpecAfr == AfrInit /\ [][AfrNext]_vars

\* the AFR of a row in thousandths, as the loop of the run sees it
RowAfr(row) == toAfr(num(row, columns, "afr").v, isLambdaAfr)

\* the row has an AFR reading and it is at or above 16.5
IsFuelCutRow(row) ==
    /\ ~isNaN(num(row, columns, "afr"))
    /\ RowAfr(row) >= 16500

\* the loop of analyzeAfr is about to scan rows[i]
AfrScanning ==
    /\ pc = "analyzeAfr"
    /\ columns.afr # <<>>
    /\ i <= Len(rows)

\* C3: a row whose AFR, after the conversion from lambda, is 16.5 or more
\* leaves the lean and rich event counts, the AFR status, the Demand AFR
\* samples and the target samples as they were, whatever its regime.
C3_FuelCutRowsNeverContribute ==
    [][(AfrScanning /\ IsFuelCutRow(rows[i])) =>
          /\ afrLoop'.leanEvents = afrLoop.leanEvents
          /\ afrLoop'.richEvents = afrLoop.richEvents
          /\ afrLoop'.status = afrLoop.status
          /\ afrLoop'.demandAfrSamples = afrLoop.demandAfrSamples
          /\ afrLoop'.targetSamples = afrLoop.targetSamples
          /\ afrLoop'.worstLean = afrLoop.worstLean]_vars

\* a WOT fuel-cut row, a Demand one and a Coast one have been scanned, with a
\* target column in the log, and nothing was counted
C3_Witness ==
    /\ pc = "analyzeAfr" /\ i = 4 /\ Len(rows) = 3
    /\ columns.afr_target # <<>>
    /\ \A k \in 1..3 : IsFuelCutRow(rows[k])
    /\ RowIsWot(rows[1], columns, boostUnit)
    /\ RowIsDemand(rows[2], columns, boostUnit)
    /\ ~RowIsWot(rows[2], columns, boostUnit)
    /\ ~RowIsDemand(rows[3], columns, boostUnit)
    /\ afrLoop = AfrStart

\* the WOT rows among the first n that have an AFR reading below fuel cut
WotReadings(n) ==
    {k \in 1..n : /\ ~isNaN(num(rows[k], columns, "afr"))
                  /\ ~IsFuelCutRow(rows[k])
                  /\ RowIsWot(rows[k], columns, boostUnit)}

\* the status the first n rows call for
StatusCalledFor(n) ==
    IF \E k \in WotReadings(n) :
            \/ RowAfr(rows[k]) > thresholds.lean_risk * 10
            \/ RowAfr(rows[k]) < thresholds.rich_risk * 10
    THEN "Risk"
    ELSE IF \E k \in WotReadings(n) :
            \/ RowAfr(rows[k]) > thresholds.lean_caution * 10
            \/ RowAfr(rows[k]) < thresholds.rich_caution * 10
    THEN "Caution"
    ELSE "Safe"

\* Scenario A: one row with Load = 80, Boost = 10 psi, AFR = 15.0, ethanol 10
ScenarioA ==
    /\ columns = ScenarioAColumns
    /\ rows = <<AfrRowOf(80, 100, Num(1500), 1250)>>
    /\ ethanol = Eth(10)

\* C4: after any sequence of rows the AFR status is Risk if a WOT row below
\* fuel cut is above lean_risk or below rich_risk, Caution if there is none but
\* one is above lean_caution or below rich_caution, and Safe otherwise; the
\* status never drops from Risk during the scan; Scenario A yields AFR status
\* Risk, overall status Risk and one lean event.
C4_AfrStatusIsWorstWotReading ==
    /\ []((pc = "analyzeAfr" /\ columns.afr # <<>>) =>
              afrLoop.status = StatusCalledFor(i - 1))
    /\ []((afr.status # "" /\ columns.afr # <<>>) =>
              afr.status = StatusCalledFor(Len(rows)))
    /\ []((pc = "done" /\ ScenarioA) =>
              /\ result.metrics.afr.status = "Risk"
              /\ result.metrics.afr.lean_events = 1
              /\ result.status = "Risk"
              /\ result.summary.overall_safety_score = "Risk")
    /\ [][afrLoop.status = "Risk" => afrLoop'.status = "Risk"]_vars

\* a lean Risk row followed by a row that alone would be Caution
C4_Witness ==
    /\ pc = "done" /\ Len(rows) = 2 /\ columns.afr # <<>>
    /\ WotReadings(2) = {1, 2}
    /\ RowAfr(rows[1]) > thresholds.lean_risk * 10
    /\ RowAfr(rows[2]) > thresholds.lean_caution * 10
    /\ RowAfr(rows[2]) <= thresholds.lean_risk * 10
    /\ result.metrics.afr.status = "Risk"
    /\ result.metrics.afr.lean_events = 1

\* the rows of the log in every order
RowOrders ==
    {[k \in 1..Len(rows) |-> rows[p[k]]] :
        p \in {q \in [1..Len(rows) -> 1..Len(rows)] :
                  \A a, b \in 1..Len(rows) : q[a] = q[b] => a = b}}

\* C25: the lean_events and rich_events that analyzeAfr returns for the rows
\* of the log are the ones it returns for the same rows in any other order.
C25_EventCountsIgnoreRowOrder ==
    (afr.status # "" /\ columns.afr # <<>>) =>
        \A other \in RowOrders :
            /\ analyzeAfr(other, columns, isLambdaAfr, thresholds,
                          boostUnit).lean_events = afr.lean_events
            /\ analyzeAfr(other, columns, isLambdaAfr, thresholds,
                          boostUnit).rich_events = afr.rich_events


\* ============================================================================
\* analyzeLog with the drop loops of analyzeHpfp run row by row, on logs that
\* have the columns Time, Engine Load, HPFP Actual (or none) and possibly HPFP
\* Target
\* ============================================================================

MaxHpfpRows == 3

\* load in %, pressures in psi
HpfpRowOf(load, actual, target) ==
    [BlankRow EXCEPT !.load = Num(load), !.hpfp = actual, !.hpfp_target = target]

HpfpRowSet ==
    \* Demand rows: 33.3 %, 20 %, 13.3 %, 10 % and -3.3 % below a 3000 psi target
    {HpfpRowOf(60, Num(a), Num(3000)) : a \in {2000, 2400, 2600, 2700, 3100}}
    \* Demand row just above the target guard: 10.1 % below 1001 psi
    \cup {HpfpRowOf(60, Num(900), Num(1001))}
    \* Coast rows at idle pressure: 87.5 % below 800 psi, 50 % below 1000 psi
    \cup {HpfpRowOf(10, Num(100), Num(800)), HpfpRowOf(10, Num(500), Num(1000))}
    \* rows without a usable reading
    \cup {HpfpRowOf(60, NaN, Num(3000)), HpfpRowOf(60, Num(2000), NaN),
          HpfpRowOf(10, Num(0), Num(3000))}

\* n Demand rows at the 3000 psi target
DemandRun(n) == [k \in 1..n |-> HpfpRowOf(60, Num(3000), Num(3000))]

\* four or five Demand rows at the target and, before or after them, one
\* Coast or Demand row 33.3 % or 10 % below it
DemandHeavyLogs ==
    {DemandRun(n) \o <<HpfpRowOf(l, Num(a), Num(3000))>> :
        n \in {4, 5}, l \in {10, 60}, a \in {2000, 2700}}
    \cup {<<HpfpRowOf(l, Num(a), Num(3000))>> \o DemandRun(n) :
        n \in {4, 5}, l \in {10, 60}, a \in {2000, 2700}}

HpfpBaseColumns ==
    [NoColumns EXCEPT !.time = HdrTime, !.load = HdrLoad, !.hpfp = HdrHpfp]

HpfpColumnSets ==
    {HpfpBaseColumns,
     [HpfpBaseColumns EXCEPT !.hpfp_target = HdrHpfpTarget],
     [HpfpBaseColumns EXCEPT !.hpfp = <<>>, !.hpfp_target = HdrHpfpTarget]}

HpfpInit ==
    /\ pc = "analyzeLog"
    /\ StorageParked
    /\ rows \in SeqsUpTo(HpfpRowSet, MaxHpfpRows) \cup DemandHeavyLogs
    /\ columns \in HpfpColumnSets
    /\ timingColumns = <<>>
    /\ boostUnit = "psi"
    /\ ethanol = Eth(10)
    /\ ethanolB = Absent
    /\ thresholds = NoThresholds /\ thresholdsB = NoThresholds
    /\ LogIdle /\ ParseParked
    /\ ClassParked /\ WorstParked

hpfpFrame == <<idleVars, thresholds, isLambdaAfr, afrLoop, afr, iat, timing, result>>

\* actuals: the positive readings of the baseline rows
HpfpActuals == ValidCells(SourceRows(rows, columns, boostUnit), columns, "hpfp")

\* if (!actualCol) return { ..., note: 'HPFP column not found in log.' }
HpfpColumnMissing ==
    /\ pc = "analyzeHpfp"
    /\ columns.hpfp = <<>>
    /\ hpfp' = HpfpMissing
    /\ pc' = "analyzeIat"
    /\ UNCHANGED <<storageVars, hpfpFrame, i, maxDropPct>>

\* if (actuals.length === 0) return { ..., max_drop_pct: null, ... }
HpfpNoValidReadings ==
    /\ pc = "analyzeHpfp"
    /\ columns.hpfp # <<>>
    /\ Len(HpfpActuals) = 0
    /\ hpfp' = HpfpNoReadings
    /\ pc' = "analyzeIat"
    /\ UNCHANGED <<storageVars, hpfpFrame, i, maxDropPct>>

\* one iteration of the loop over the entire log, a target column existing
HpfpScanRow ==
    /\ pc = "analyzeHpfp"
    /\ columns.hpfp # <<>>
    /\ Len(HpfpActuals) > 0
    /\ columns.hpfp_target # <<>>
    /\ i <= Len(rows)
    /\ maxDropPct' = HpfpTargetRow(maxDropPct, rows[i], columns)
    /\ i' = i + 1
    /\ UNCHANGED <<storageVars, hpfpFrame, pc, hpfp>>

\* one iteration of the loop over `actuals`, no target column existing
HpfpScanActual ==
    /\ pc = "analyzeHpfp"
    /\ columns.hpfp # <<>>
    /\ Len(HpfpActuals) > 0
    /\ columns.hpfp_target = <<>>
    /\ i <= Len(HpfpActuals)
    /\ maxDropPct' = DropMax(maxDropPct, MaxSeq(HpfpActuals) - HpfpActuals[i],
                             MaxSeq(HpfpActuals))
    /\ i' = i + 1
    /\ UNCHANGED <<storageVars, hpfpFrame, pc, hpfp>>

\* the loop is over: status, note and the returned object
HpfpReturn ==
    /\ pc = "analyzeHpfp"
    /\ columns.hpfp # <<>>
    /\ Len(HpfpActuals) > 0
    /\ i > (IF columns.hpfp_target # <<>> THEN Len(rows) ELSE Len(HpfpActuals))
    /\ hpfp' = HpfpResult(maxDropPct, rows, columns, boostUnit)
    /\ pc' = "analyzeIat"
    /\ UNCHANGED <<storageVars, hpfpFrame, i, maxDropPct>>

HpfpNext ==
    \/ StartAnalyzeLog
    \/ CallAnalyzeAfr
    \/ HpfpColumnMissing
    \/ HpfpNoValidReadings
    \/ HpfpScanRow
    \/ HpfpScanActual
    \/ HpfpReturn
    \/ CallAnalyzeIat
    \/ CallAnalyzeTimingCorrections
    \/ Aggregate
    \/ CallBuildChartData

SpecHpfp == HpfpInit /\ [][HpfpNext]_vars

\* C12: the HPFP status is Risk when the maximum drop is >= 20 %, Caution
\* when it is >= 10 % and < 20 %, and Safe otherwise; a single row with target
\* 3000 and actual 2000 gives a drop of 33.3 % and status Risk.
C12_HpfpStatusFromMaxDrop ==
    /\ (hpfp.status # "" /\ hpfp.max_drop_pct.ok) =>
          hpfp.status = IF maxDropPct.n * 100 >= 20 * maxDropPct.d THEN "Risk"
                        ELSE IF maxDropPct.n * 100 >= 10 * maxDropPct.d
                        THEN "Caution"
                        ELSE "Safe"
    /\ (/\ hpfp.status # ""
        /\ rows = <<HpfpRowOf(60, Num(2000), Num(3000))>>
        /\ columns.hpfp # <<>> /\ columns.hpfp_target # <<>>)
       => hpfp.max_drop_pct = Num(333) /\ hpfp.status = "Risk"

\* the worst row of the log is exactly 20 % below its target
C12_Witness ==
    /\ pc = "done"
    /\ columns.hpfp # <<>> /\ columns.hpfp_target # <<>>
    /\ maxDropPct = [n |-> 600, d |-> 3000]
    /\ result.metrics.hpfp.max_drop_pct = Num(200)
    /\ result.metrics.hpfp.status = "Risk"

\* analyzeHpfp has returned for a log with an actual and a target column
HpfpReturnedWithTarget ==
    /\ hpfp.status # ""
    /\ columns.hpfp # <<>>
    /\ columns.hpfp_target # <<>>

\* the rows with a numeric target above 1000 psi and a numeric actual above 0
HighTargetRows ==
    {k \in 1..Len(rows) :
        /\ ~isNaN(num(rows[k], columns, "hpfp"))
        /\ ~isNaN(num(rows[k], columns, "hpfp_target"))
        /\ rows[k].hpfp_target.v > 1000
        /\ rows[k].hpfp.v > 0}

\* (target - actual) / target * 100 of rows[k], in tenths of a percent
DropPctOf(k) ==
    RoundDiv((rows[k].hpfp_target.v - rows[k].hpfp.v) * 1000, rows[k].hpfp_target.v)

\* the largest member of a non-empty set of integers
MaxOf(S) == CHOOSE x \in S : \A y \in S : y <= x

\* C10 as stated: with a target column, max_drop_pct is the maximum of
\* (target - actual) / target * 100 over the rows with target > 1000 and
\* actual > 0, and 0 if there are none.
C10_MaxDropIsMaxOverHighTargetRows ==
    HpfpReturnedWithTarget =>
        hpfp.max_drop_pct =
            Num(IF HighTargetRows = {} THEN 0
                ELSE MaxOf({DropPctOf(k) : k \in HighTargetRows}))

\* C10 amended: with a target column, a row whose target is 1000 psi or less
\* leaves the running maximum as it was; max_drop_pct is null when the baseline
\* rows hold no positive actual reading, and otherwise it is the largest of 0
\* and the drops (target - actual) / target * 100 of the rows with target >
\* 1000 and actual > 0, rounded to one decimal.
C10_MaxDropIsLargestPositiveDropOverHighTargetRows ==
    /\ [](HpfpReturnedWithTarget =>
            hpfp.max_drop_pct =
                IF Len(HpfpActuals) = 0 THEN Null
                ELSE Num(MaxOf({0} \cup {DropPctOf(k) : k \in HighTargetRows})))
    /\ [][(/\ pc = "analyzeHpfp" /\ columns.hpfp_target # <<>> /\ i <= Len(rows)
           /\ ~isNaN(num(rows[i], columns, "hpfp_target"))
           /\ rows[i].hpfp_target.v <= 1000)
          => maxDropPct' = maxDropPct]_vars

\* a row 87.5 % below its 800 psi target and a row 13.3 % below its 3000 psi
\* target: the analyzer reports 13.3 %
C10_Witness ==
    /\ pc = "done" /\ HpfpReturnedWithTarget
    /\ \E k \in 1..Len(rows) :
          rows[k].hpfp = Num(100) /\ rows[k].hpfp_target = Num(800)
    /\ \E k \in 1..Len(rows) :
          rows[k].hpfp = Num(2600) /\ rows[k].hpfp_target = Num(3000)
    /\ result.metrics.hpfp.max_drop_pct = Num(133)
    /\ result.metrics.hpfp.status = "Caution"

\* the drop of every row of the log with a positive actual reading, as a
\* fraction: below the row's target (above 1000 psi) when there is a target
\* column, below the peak actual pressure otherwise
EveryRowDrops ==
    IF columns.hpfp_target # <<>>
    THEN {[n |-> rows[k].hpfp_target.v - rows[k].hpfp.v, d |-> rows[k].hpfp_target.v] :
             k \in HighTargetRows}
    ELSE {[n |-> MaxSeq(HpfpActuals) - rows[k].hpfp.v, d |-> MaxSeq(HpfpActuals)] :
             k \in {j \in 1..Len(rows) : rows[j].hpfp.ok /\ rows[j].hpfp.v > 0}}

\* C18: under both strategies the maximum drop is taken over every row of the
\* log, not only the Demand rows: when analyzeHpfp returns a drop, no row of
\* the log has a drop above it, a low reading on a non-Demand row included,
\* also when 5 or more Demand rows exist.
C18_MaxDropCoversEveryRow ==
    (hpfp.status # "" /\ hpfp.max_drop_pct.ok) =>
        \A f \in EveryRowDrops : f.n * maxDropPct.d <= maxDropPct.n * f.d


\* ============================================================================
\* analyzeLog, one step per analyzer, on logs that have every column
\* ============================================================================

MaxLogRows == 3

\* a WOT row (load 80 %, boost 10 psi, HPFP target 3000 psi): AFR in
\* hundredths, HPFP in psi, IAT in degrees F, timing correction in degrees
LogRowOf(afrCell, actual, iatCell, correction) ==
    [BlankRow EXCEPT !.load = Num(80), !.boost = Num(100), !.afr = Num(afrCell),
                     !.hpfp = Num(actual), !.hpfp_target = Num(3000),
                     !.iat = Num(iatCell), !.timing = <<Num(correction)>>]

\* a row on which every metric is Safe, and for each metric the rows that take
\* it alone to Caution and to Risk
LogRowSet ==
    {LogRowOf(1200, 3000, 100, 0)}
    \cup {LogRowOf(a, 3000, 100, 0) : a \in {1280, 1500}}
    \cup {LogRowOf(1200, h, 100, 0) : h \in {2600, 2000}}
    \cup {LogRowOf(1200, 3000, t, 0) : t \in {125, 145}}
    \cup {LogRowOf(1200, 3000, 100, c) : c \in {0 - 2, 0 - 4}}

LogColumns ==
    [NoColumns EXCEPT !.time = HdrTime, !.load = HdrLoad, !.afr = HdrAfr,
                      !.boost = HdrBoostPsi, !.hpfp = HdrHpfp,
                      !.hpfp_target = HdrHpfpTarget, !.iat = HdrIatF]

Init ==
    /\ pc = "analyzeLog"
    /\ StorageParked
    /\ rows \in SeqsUpTo(LogRowSet, MaxLogRows)
    /\ \/ columns = LogColumns /\ timingColumns = <<HdrTimingCyl>>
       \/ columns = [LogColumns EXCEPT !.iat = <<>>] /\ timingColumns = <<>>
    /\ boostUnit = "psi"
    /\ ethanol = Eth(10)
    /\ ethanolB = Absent
    /\ thresholds = NoThresholds /\ thresholdsB = NoThresholds
    /\ LogIdle /\ ParseParked
    /\ ClassParked /\ WorstParked

Next ==
    \/ StartAnalyzeLog
    \/ CallAnalyzeAfr
    \/ CallAnalyzeHpfp
    \/ CallAnalyzeIat
    \/ CallAnalyzeTimingCorrections
    \/ Aggregate
    \/ CallBuildChartData

Spec == Init /\ [][Next]_vars

\* the statuses of the four metrics of the returned object
MetricStatuses ==
    {result.metrics.afr.status, result.metrics.hpfp.status,
     result.metrics.iat.status, result.metrics.timingCorrections.status}

\* the worst of a set of statuses under Safe < Caution < Risk
WorstOf(S) ==
    IF "Risk" \in S THEN "Risk" ELSE IF "Caution" \in S THEN "Caution" ELSE "Safe"

\* C5: result.status and summary.overall_safety_score are the worst of the
\* four metric statuses: Risk iff some metric is Risk, Caution iff none is Risk
\* and some is Caution, Safe iff all four are Safe.
C5_OverallIsWorstMetricStatus ==
    pc = "done" =>
        /\ result.metrics.afr = afr /\ result.metrics.hpfp = hpfp
        /\ result.metrics.iat = iat /\ result.metrics.timingCorrections = timing
        /\ MetricStatuses \subseteq Statuses
        /\ result.status = WorstOf(MetricStatuses)
        /\ result.summary.overall_safety_score = WorstOf(MetricStatuses)
        /\ (result.status = "Risk") <=> ("Risk" \in MetricStatuses)
        /\ (result.status = "Caution") <=>
               ("Risk" \notin MetricStatuses /\ "Caution" \in MetricStatuses)
        /\ (result.status = "Safe") <=> (MetricStatuses = {"Safe"})

\* the timing metric alone is Risk, the HPFP metric is Caution
C5_Witness ==
    /\ pc = "done"
    /\ result.metrics.afr.status = "Safe"
    /\ result.metrics.hpfp.status = "Caution"
    /\ result.metrics.iat.status = "Safe"
    /\ result.metrics.timingCorrections.status = "Risk"
    /\ result.status = "Risk"
    /\ result.summary.overall_safety_score = "Risk"


\* ============================================================================
\* buildChartData applied to the arguments analyzeLog hands it, on logs long
\* enough for the stride to exceed 1
\* ============================================================================

MaxChartRows == 301

\* row counts: the shortest logs and those around the multiples of MAX_POINTS
ChartRowCounts ==
    {n \in 0..MaxChartRows : n < 6 \/ n % MAX_POINTS \in {0, 1, MAX_POINTS - 1}}

\* a WOT row on which nothing is flagged
QuietRow == LogRowOf(1200, 3000, 100, 0)

\* the quiet row; a lean row; a timing pull of -3; HPFP 33.3 % and 23.3 %
\* below target (and below a 3000 psi session peak)
ChartSecondRows ==
    {QuietRow, LogRowOf(1500, 3000, 100, 0), LogRowOf(1200, 3000, 100, 0 - 3),
     LogRowOf(1200, 2000, 100, 0), LogRowOf(1200, 2300, 100, 0)}

\* those rows; a lean row above fuel cut; a timing pull of -2; a lean row and
\* a pull of -3 with pedal and throttle lifted, and with the pedal lifted and
\* no throttle reading; a pull of -3 at 30 % load and no boost
ChartRowSet ==
    ChartSecondRows
    \cup {LogRowOf(1700, 3000, 100, 0), LogRowOf(1200, 3000, 100, 0 - 2),
          [LogRowOf(1500, 3000, 100, 0 - 3) EXCEPT !.pedal = Num(0),
                                                  !.throttle = Num(2)],
          [LogRowOf(1500, 3000, 100, 0 - 3) EXCEPT !.pedal = Num(0)],
          [LogRowOf(1200, 3000, 100, 0 - 3) EXCEPT !.load = Num(30),
                                                  !.boost = Num(0)]}

ChartColumns == [LogColumns EXCEPT !.pedal = HdrPedal, !.throttle = HdrThrottle]

\* a log of n quiet rows but for its rows number p1 and p2
ChartLog(n, p1, r1, p2, r2) ==
    [k \in 1..n |-> IF k = p1 THEN r1 ELSE IF k = p2 THEN r2 ELSE QuietRow]

ChartInit ==
    /\ pc = "buildChartData"
    /\ StorageParked
    /\ \E n \in ChartRowCounts, p1 \in 1..2, p2 \in 3..4 :
       \E r1 \in ChartRowSet, r2 \in ChartSecondRows :
          rows \in {ChartLog(n, p1, r1, p2, r2), ChartLog(n, p1, r1, n, r2)}
    /\ columns \in {ChartColumns, [ChartColumns EXCEPT !.hpfp_target = <<>>]}
    /\ timingColumns = <<HdrTimingCyl>>
    /\ boostUnit = "psi"
    /\ ethanol = Eth(10)
    /\ ethanolB = Absent
    /\ thresholds = getAfrThresholds(ethanol) /\ thresholdsB = NoThresholds
    /\ LogIdle /\ ParseParked
    /\ isLambdaAfr = IsLambdaAfr(rows, columns)
    /\ ClassParked /\ WorstParked

ChartNext == CallBuildChartData

SpecChart == ChartInit /\ [][ChartNext]_vars

\* C11: buildChartData, called with the point budget 150, returns at most 150
\* chart points.
C11_AtMostMaxPoints ==
    pc = "done" => Len(chartData) <= 150

\* the stride of the chart and the rows (numbered from 0) of the window of
\* its k-th point
Stride == ChartStep(Len(rows), MAX_POINTS)
Window(k) ==
    {j \in ((k - 1) * Stride)..(k * Stride - 1) : j < Len(rows)}

\* row j (numbered from 0) is WOT with an AFR above lean_caution
LeanAtWot(j) ==
    /\ RowIsWot(rows[j + 1], columns, boostUnit)
    /\ rows[j + 1].afr.ok
    /\ toAfr(rows[j + 1].afr.v, isLambdaAfr) > thresholds.lean_caution * 10

\* row j is under load: load >= 40 or boost > 2 psi, and pedal and throttle
\* are not both present and lifted
ChartUnderLoad(j) ==
    LET r == rows[j + 1]
    IN  /\ (r.load.ok /\ r.load.v >= 40) \/ (r.boost.ok /\ r.boost.v > 20)
        /\ ~(r.pedal.ok /\ r.throttle.ok /\ r.pedal.v < 1 /\ r.throttle.v < 5)

\* row j is under load with a timing correction at or below -3
PullUnderLoad(j) ==
    /\ ChartUnderLoad(j)
    /\ \E c \in 1..Len(timingColumns) :
          rows[j + 1].timing[c].ok /\ rows[j + 1].timing[c].v <= 0 - 3

\* C19: for every chart point, isLeanWarning is true iff some row of its
\* stride window [i, i + step), not only row i, is WOT with an AFR above
\* lean_caution, and isTimingWarning is true iff some row of that window is
\* under load with a timing correction at or below -3.
C19_FlagsCoverTheStrideWindow ==
    pc = "done" =>
        \A k \in 1..Len(chartData) :
            /\ chartData[k].isLeanWarning <=> \E j \in Window(k) : LeanAtWot(j)
            /\ chartData[k].isTimingWarning <=> \E j \in Window(k) : PullUnderLoad(j)

\* stride 2: the lean row and the timing pull are the second rows of the
\* windows of the first and second point, whose sampled rows are quiet
C19_Witness ==
    /\ pc = "done"
    /\ Len(rows) = 300
    /\ rows[1] = QuietRow /\ rows[2] = LogRowOf(1500, 3000, 100, 0)
    /\ rows[3] = QuietRow /\ rows[4] = LogRowOf(1200, 3000, 100, 0 - 3)
    /\ chartData[1].isLeanWarning /\ ~chartData[1].isTimingWarning
    /\ chartData[2].isTimingWarning /\ ~chartData[2].isLeanWarning

\* the peak actual pressure of the log
PeakOfLog ==
    MaxOf({0} \cup {rows[m].hpfp.v : m \in {q \in 1..Len(rows) : rows[q].hpfp.ok}})

\* the HPFP drop of a row as a fraction: below the row's target above 1000
\* psi, or below the peak of the log when there is no target column; 0 for a
\* row without a positive reading
HpfpDropOfRow(r, peak) ==
    IF columns.hpfp = <<>> \/ ~r.hpfp.ok \/ r.hpfp.v <= 0 THEN [n |-> 0, d |-> 1]
    ELSE IF columns.hpfp_target # <<>>
    THEN (IF r.hpfp_target.ok /\ r.hpfp_target.v > 1000
          THEN [n |-> r.hpfp_target.v - r.hpfp.v, d |-> r.hpfp_target.v]
          ELSE [n |-> 0, d |-> 1])
    ELSE [n |-> peak - r.hpfp.v, d |-> peak]

FlaggedHpfpPoints == {k \in 1..Len(chartData) : chartData[k].isHpfpWarning}

\* C20: at most one chart point has isHpfpWarning; a flagged point is the one
\* whose stride window contains the row with the largest HPFP drop of the
\* whole file, and every other point is unflagged whatever its own drop.
C20_OnlyTheWorstHpfpWindowIsFlagged ==
    pc = "done" =>
        LET peak    == PeakOfLog
            drops   == {HpfpDropOfRow(rows[m], peak) : m \in 1..Len(rows)}
            largest == CHOOSE f \in drops : \A g \in drops : g.n * f.d <= f.n * g.d
        IN  /\ Cardinality(FlaggedHpfpPoints) <= 1
            /\ \A k \in FlaggedHpfpPoints :
                  \E j \in Window(k) :
                      HpfpDropOfRow(rows[j + 1], peak).n * largest.d
                          = largest.n * HpfpDropOfRow(rows[j + 1], peak).d

\* stride 2: a row 23.3 % below target in the first window, the row 33.3 %
\* below target in the second; only the second point is flagged
C20_Witness ==
    /\ pc = "done"
    /\ Len(rows) = 300
    /\ rows[2] = LogRowOf(1200, 2300, 100, 0)
    /\ rows[4] = LogRowOf(1200, 2000, 100, 0)
    /\ FlaggedHpfpPoints = {2}


\* ============================================================================
\* analyzeLog on logs that have the columns Time, Engine Load and an intake air
\* temperature column with a Fahrenheit marker, a Celsius marker or no marker
\* ============================================================================

MaxIatRows == 3

HdrIatC     == <<"I", "n", "t", "a", "k", "e", " ", "A", "i", "r", " ",
                 "T", "e", "m", "p", " ", "[", "deg", "C", "]">>
HdrIatPlain == <<"I", "A", "T">>

\* Demand rows with a reading in whole degrees, and one without a reading
IatRowSet ==
    {[BlankRow EXCEPT !.load = Num(80), !.iat = Num(t)] :
        t \in {30, 48, 49, 60, 100, 101, 125, 150}}
    \cup {[BlankRow EXCEPT !.load = Num(80)]}

IatBaseColumns == [NoColumns EXCEPT !.time = HdrTime, !.load = HdrLoad]

IatColumnSets ==
    {[IatBaseColumns EXCEPT !.iat = h] : h \in {HdrIatF, HdrIatC, HdrIatPlain, <<>>}}

IatInit ==
    /\ pc = "analyzeLog"
    /\ StorageParked
    /\ rows \in SeqsUpTo(IatRowSet, MaxIatRows)
    /\ columns \in IatColumnSets
    /\ timingColumns = <<>>
    /\ boostUnit = "psi"
    /\ ethanol = Eth(10)
    /\ ethanolB = Absent
    /\ thresholds = NoThresholds /\ thresholdsB = NoThresholds
    /\ LogIdle /\ ParseParked
    /\ ClassParked /\ WorstParked

IatNext ==
    \/ StartAnalyzeLog
    \/ CallAnalyzeAfr
    \/ CallAnalyzeHpfp
    \/ CallAnalyzeIat
    \/ CallAnalyzeTimingCorrections
    \/ Aggregate
    \/ CallBuildChartData

SpecIat == IatInit /\ [][IatNext]_vars

\* the IAT readings of the log
IatReadings == {rows[k].iat.v : k \in {j \in 1..Len(rows) : rows[j].iat.ok}}

\* the unit the header of the log states, "" when it states none
IatHeaderUnit ==
    IF columns.iat = HdrIatF THEN "F" ELSE IF columns.iat = HdrIatC THEN "C" ELSE ""

\* the unit of the log: the header's, else F iff some reading exceeds 100
IatUnitOfLog ==
    IF IatHeaderUnit # "" THEN IatHeaderUnit
    ELSE IF \E t \in IatReadings : t > 100 THEN "F" ELSE "C"

\* analyzeIat has returned a peak
IatReturnedPeak == iat.status # "" /\ columns.iat # <<>> /\ IatReadings # {}

\* C13: the unit is the one the header marks, else Fahrenheit iff some reading
\* exceeds 100; the peak is converted by C * 9 / 5 + 32 when the unit is
\* Celsius and left as it is when Fahrenheit; the status is Risk at
\* peak_f >= 140, Caution at peak_f >= 120, else Safe; header
\* 'Intake Air Temp [degF]' with peak 150 gives unit F, peak_f 150 and Risk.
C13_IatUnitPeakAndStatus ==
    /\ IatReturnedPeak =>
          /\ iat.unit = IatUnitOfLog
          /\ iat.value.ok /\ iat.peak_f.ok
          /\ iat.value.v \in IatReadings
          /\ \A t \in IatReadings : t <= iat.value.v
          /\ iat.peak_f.v = IF IatUnitOfLog = "C" THEN (iat.value.v * 9 * 10) \div 5 + 320
                            ELSE iat.value.v * 10
          /\ iat.status = IF iat.peak_f.v >= 1400 THEN "Risk"
                          ELSE IF iat.peak_f.v >= 1200 THEN "Caution"
                          ELSE "Safe"
    /\ (IatReturnedPeak /\ columns.iat = HdrIatF /\ (\A t \in IatReadings : t <= 150)
            /\ 150 \in IatReadings)
       => iat.unit = "F" /\ iat.peak_f = Num(1500) /\ iat.status = "Risk"

\* a Celsius-marked log whose peak of 60 C is 140 F
C13_Witness ==
    /\ pc = "done"
    /\ columns.iat = HdrIatC
    /\ IatReadings = {30, 60}
    /\ result.metrics.iat.unit = "C"
    /\ result.metrics.iat.peak_f = Num(1400)
    /\ result.metrics.iat.status = "Risk"


\* ============================================================================
\* analyzeLog on logs that have the columns Time, Engine Load, Boost (psi),
\* Pedal, Throttle and the four columns Timing Correction Cyl1 .. Cyl4
\* ============================================================================

MaxTimingRows == 2

\* 'Timing Correction Cyl<k>'
HdrTimingCylN(k) == HdrTimingCyl \o <<(<<"1", "2", "3", "4">>)[k]>>

FourTimingColumns == [k \in 1..4 |-> HdrTimingCylN(k)]

TimingColumns ==
    [NoColumns EXCEPT !.time = HdrTime, !.load = HdrLoad, !.boost = HdrBoostPsi,
                      !.pedal = HdrPedal, !.throttle = HdrThrottle]

\* load in %, boost in tenths of a psi, pedal and throttle in %: rows at and
\* around the 40 % load bound, a low-load row with boost above 2 psi, a
\* lifted row and a row with the pedal released and the throttle open
TimingContexts ==
    {[BlankRow EXCEPT !.load = Num(60), !.boost = Num(0)],
     [BlankRow EXCEPT !.load = Num(40), !.boost = Num(20)],
     [BlankRow EXCEPT !.load = Num(39), !.boost = Num(20)],
     [BlankRow EXCEPT !.load = Num(30), !.boost = Num(30)],
     [BlankRow EXCEPT !.load = Num(60), !.pedal = Num(0), !.throttle = Num(2)],
     [BlankRow EXCEPT !.load = Num(60), !.pedal = Num(0), !.throttle = Num(10)]}

\* the cells under the four timing columns, in whole degrees
TimingCells ==
    {<<Num(0), Num(0), Num(0), Num(0)>>,
     <<Num(0 - 1), Num(0 - 2), Num(0), NaN>>,
     <<Num(0), Num(0 - 4), Num(0 - 4), Num(0 - 3)>>,
     <<Num(0 - 1), Num(0), Num(0 - 5), Num(0 - 2)>>,
     <<NaN, NaN, NaN, NaN>>}

TimingRowSet == {[r EXCEPT !.timing = c] : r \in TimingContexts, c \in TimingCells}

TimingInit ==
    /\ pc = "analyzeLog"
    /\ StorageParked
    /\ rows \in SeqsUpTo(TimingRowSet, MaxTimingRows)
    /\ columns = TimingColumns
    /\ timingColumns = FourTimingColumns
    /\ boostUnit = "psi"
    /\ ethanol = Eth(10)
    /\ ethanolB = Absent
    /\ thresholds = NoThresholds /\ thresholdsB = NoThresholds
    /\ LogIdle /\ ParseParked
    /\ ClassParked /\ WorstParked

TimingNext ==
    \/ StartAnalyzeLog
    \/ CallAnalyzeAfr
    \/ CallAnalyzeHpfp
    \/ CallAnalyzeIat
    \/ CallAnalyzeTimingCorrections
    \/ Aggregate
    \/ CallBuildChartData

SpecTiming == TimingInit /\ [][TimingNext]_vars

\* row k is under load: load >= 40 or boost > 2 psi, and the lift/coast guard
\* of isDemand does not reject it (isDemand at a load of 100 % is that guard)
UnderLoad(k) ==
    /\ \/ rows[k].load.ok /\ rows[k].load.v >= 40
       \/ rows[k].boost.ok /\ rows[k].boost.v > 20
    /\ isDemand(Num(100), NaN, rows[k].pedal, rows[k].throttle)

\* the places <<row, column>> of the corrections read under load
CorrectionsUnderLoad ==
    {pl \in (1..Len(rows)) \X (1..Len(timingColumns)) :
        UnderLoad(pl[1]) /\ rows[pl[1]].timing[pl[2]].ok}

CorrectionAt(pl) == rows[pl[1]].timing[pl[2]].v

\* the most negative correction under load, 0 when none is negative
WorstCorrection ==
    IF \E pl \in CorrectionsUnderLoad : CorrectionAt(pl) < 0
    THEN CHOOSE w \in {CorrectionAt(pl) : pl \in CorrectionsUnderLoad} :
            \A pl \in CorrectionsUnderLoad : w <= CorrectionAt(pl)
    ELSE 0

\* C14: analyzeTimingCorrections reads only the rows under load; over them and
\* the detected columns it reports the most negative correction and a column
\* it came from, counts every value <= -2 as a pull event, and is Risk at a
\* worst value <= -4, Caution at <= -2, else Safe; with four columns and a
\* worst value of -5 on a load = 60 row it is Risk and the note names the
\* column that holds the -5.
C14_TimingWorstUnderLoad ==
    /\ (timing.status # "" /\ timingColumns # <<>>) =>
          /\ timing.max_correction = Num(WorstCorrection)
          /\ (WorstCorrection < 0) =>
                \E pl \in CorrectionsUnderLoad :
                    CorrectionAt(pl) = WorstCorrection /\ timing.cylinders = pl[2]
          /\ timing.pull_events =
                Cardinality({pl \in CorrectionsUnderLoad : CorrectionAt(pl) <= 0 - 2})
          /\ timing.status = IF WorstCorrection <= 0 - 4 THEN "Risk"
                             ELSE IF WorstCorrection <= 0 - 2 THEN "Caution"
                             ELSE "Safe"
    /\ (/\ timing.status # ""
        /\ Len(timingColumns) = 4
        /\ WorstCorrection = 0 - 5
        /\ \E k \in 1..Len(rows) : rows[k].load = Num(60) /\ UnderLoad(k)
                                   /\ rows[k].timing[3] = Num(0 - 5))
       => /\ timing.status = "Risk"
          /\ timing.note # ""
          /\ timing.cylinders = 3

\* a -5 on a row that is not under load, then a -4 in the second and third
\* columns of a load = 60 row
C14_Witness ==
    /\ pc = "done"
    /\ Len(rows) = 2
    /\ ~UnderLoad(1) /\ rows[1].timing[3] = Num(0 - 5)
    /\ UnderLoad(2) /\ rows[2].load = Num(60) /\ rows[2].timing[2] = Num(0 - 4)
    /\ result.metrics.timingCorrections.max_correction = Num(0 - 4)
    /\ result.metrics.timingCorrections.cylinders = 2
    /\ result.metrics.timingCorrections.pull_events = 3
    /\ result.metrics.timingCorrections.status = "Risk"


\* ============================================================================
\* findTimingColumns applied to the header cells of a file
\* ============================================================================

MaxHeaders == 3

HdrKnock      == <<"K", "n", "o", "c", "k">>
HdrCyl1       == <<"C", "y", "l", " ", "1">>
HdrKnockCyl   == <<"K", "N", "O", "C", "K", " ", "C", "Y", "L", "2">>
HdrIgnCor     == <<"I", "g", "n", "_", "C", "o", "r", " ", "C", "y", "l", "i", "n",
                   "d", "e", "r", " ", "3">>
HdrTimingOnly == <<"T", "i", "m", "i", "n", "g", " ", "C", "y", "l">>

\* headers with a timing keyword only, a cylinder keyword only, both (in
\* lower, upper and mixed case), neither, and the word "timing" without "cor"
TimingHeaderSet ==
    {HdrTime, HdrKnock, HdrCyl1, HdrKnockCyl, HdrIgnCor, HdrTimingCyl, HdrTimingOnly}

FindTimingInit ==
    /\ pc = "findTimingColumns"
    /\ StorageParked
    /\ headers \in SeqsUpTo(TimingHeaderSet, MaxHeaders)
    /\ csvText = <<>> /\ error = ""
    /\ rows = <<>>
    /\ columns = NoColumns
    /\ timingColumns = <<>>
    /\ boostUnit = "psi"
    /\ LogIdle
    /\ ClassParked /\ ThreshParked /\ WorstParked

\* const timingColumns = findTimingColumns(headers)
CallFindTimingColumns ==
    /\ pc = "findTimingColumns"
    /\ timingColumns' = findTimingColumns(headers)
    /\ pc' = "found"
    /\ UNCHANGED <<storageVars, classVars, threshVars, worstVars, rows, columns, boostUnit,
                   isLambdaAfr, i, afrLoop, maxDropPct, afr, hpfp, iat, timing,
                   result, chartData, parseVars>>

FindTimingNext == CallFindTimingColumns

SpecFindTiming == FindTimingInit /\ [][FindTimingNext]_vars

\* the header contains the word, whatever the case of its letters
ContainsWord(h, word) ==
    \E a \in 1..Len(h) : \E b \in a..Len(h) :
        toLowerCase(SubSeq(h, a, b)) = toLowerCase(word)

TimingWords ==
    {<<"t", "i", "m", "i", "n", "g", " ", "c", "o", "r">>,
     <<"t", "i", "m", "i", "n", "g", "_", "c", "o", "r">>,
     <<"i", "g", "n", " ", "c", "o", "r">>, <<"i", "g", "n", "_", "c", "o", "r">>,
     <<"i", "g", "n", "i", "t", "i", "o", "n", " ", "c", "o", "r">>,
     <<"k", "n", "o", "c", "k">>}
CylinderWords ==
    {<<"c", "y", "l">>, <<"c", "y", "l", "i", "n", "d", "e", "r">>,
     <<"c", "y", "l", "_">>}

HasBothWords(h) ==
    /\ \E w \in TimingWords : ContainsWord(h, w)
    /\ \E w \in CylinderWords : ContainsWord(h, w)

\* C15: findTimingColumns selects a header iff it contains, in any case, a
\* timing/ignition/knock keyword and a cylinder keyword: the selected headers
\* are those headers, in the order of the file; 'Knock' alone and 'Cyl 1'
\* alone are never selected.
C15_TimingColumnsHaveBothWords ==
    pc = "found" =>
        /\ timingColumns = SelectSeq(headers, HasBothWords)
        /\ \A k \in 1..Len(timingColumns) :
              timingColumns[k] \notin {HdrKnock, HdrCyl1, HdrTime}
        /\ \A k \in 1..Len(headers) :
              headers[k] \in {HdrKnockCyl, HdrIgnCor, HdrTimingCyl} =>
                  \E m \in 1..Len(timingColumns) : timingColumns[m] = headers[k]

\* 'Knock', 'KNOCK CYL2', 'Cyl 1': only the second is selected
C15_Witness ==
    /\ pc = "found"
    /\ headers = <<HdrKnock, HdrKnockCyl, HdrCyl1>>
    /\ timingColumns = <<HdrKnockCyl>>


\* ============================================================================
\* analyzeLog on logs in which the AFR, the HPFP or the IAT channel did not
\* resolve to a header
\* ============================================================================

MaxMissingRows == 2

\* the columns of LogColumns without the channels of `missing`
ColumnsWithout(missing) ==
    [ch \in Channels |-> IF ch \in missing THEN <<>> ELSE LogColumns[ch]]

MissingInit ==
    /\ pc = "analyzeLog"
    /\ StorageParked
    /\ rows \in SeqsUpTo(LogRowSet, MaxMissingRows)
    /\ \E missing \in SUBSET {"afr", "hpfp", "iat"} : columns = ColumnsWithout(missing)
    /\ timingColumns = <<HdrTimingCyl>>
    /\ boostUnit = "psi"
    /\ ethanol = Eth(10)
    /\ ethanolB = Absent
    /\ thresholds = NoThresholds /\ thresholdsB = NoThresholds
    /\ LogIdle /\ ParseParked
    /\ ClassParked /\ WorstParked

MissingNext ==
    \/ StartAnalyzeLog
    \/ CallAnalyzeAfr
    \/ CallAnalyzeHpfp
    \/ CallAnalyzeIat
    \/ CallAnalyzeTimingCorrections
    \/ Aggregate
    \/ CallBuildChartData

SpecMissing == MissingInit /\ [][MissingNext]_vars

\* the statuses of the timing metric and of the metrics whose channel resolved
RemainingStatuses ==
    {result.metrics.timingCorrections.status}
    \cup (IF columns.afr # <<>> THEN {result.metrics.afr.status} ELSE {})
    \cup (IF columns.hpfp # <<>> THEN {result.metrics.hpfp.status} ELSE {})
    \cup (IF columns.iat # <<>> THEN {result.metrics.iat.status} ELSE {})

\* C16: when the AFR, HPFP or IAT channel does not resolve, analyzeLog returns
\* without an error; the metric of the channel is Safe with a null value and
\* the note '<channel> column not found in log.'; every other metric is what
\* it is on the same rows with all channels resolved, and the overall status
\* is the worst of the remaining metrics.
C16_MissingChannelIsSafeAndIsolated ==
    pc = "done" =>
        /\ error = ""
        /\ IF columns.afr = <<>>
           THEN /\ result.metrics.afr.status = "Safe"
                /\ result.metrics.afr.actual = Null
                /\ result.metrics.afr.note = "AFR column not found in log."
           ELSE result.metrics.afr =
                    analyzeAfr(rows, LogColumns, IsLambdaAfr(rows, LogColumns),
                               getAfrThresholds(ethanol), boostUnit)
        /\ IF columns.hpfp = <<>>
           THEN /\ result.metrics.hpfp.status = "Safe"
                /\ result.metrics.hpfp.actual = Null
                /\ result.metrics.hpfp.note = "HPFP column not found in log."
           ELSE result.metrics.hpfp = analyzeHpfp(rows, LogColumns, boostUnit)
        /\ IF columns.iat = <<>>
           THEN /\ result.metrics.iat.status = "Safe"
                /\ result.metrics.iat.value = Null
                /\ result.metrics.iat.note = "IAT column not found in log."
           ELSE result.metrics.iat = analyzeIat(rows, LogColumns, boostUnit)
        /\ result.metrics.timingCorrections =
               analyzeTimingCorrections(rows, timingColumns, LogColumns, boostUnit)
        /\ result.status = WorstOf(RemainingStatuses)

\* the AFR and IAT channels are missing on a log whose AFR and IAT cells would
\* be Risk; the HPFP metric is Caution and so is the overall status
C16_Witness ==
    /\ pc = "done"
    /\ columns.afr = <<>> /\ columns.iat = <<>> /\ columns.hpfp # <<>>
    /\ \E k \in 1..Len(rows) : rows[k].afr = Num(1500)
    /\ \E k \in 1..Len(rows) : rows[k].hpfp = Num(2600)
    /\ result.metrics.afr = AfrMissing
    /\ result.metrics.iat = IatMissing
    /\ result.metrics.hpfp.status = "Caution"
    /\ result.status = "Caution"


\* ============================================================================
\* analyzeLog from the text of the file: parseCsv, the four analyzers, the
\* aggregation and the chart
\* ============================================================================

MaxLines == 3

HdrKnockCyl1 == <<"K", "n", "o", "c", "k", " ", "C", "y", "l", " ", "1">>

LineHeader == <<"QUOTE", "T", "i", "m", "e", "QUOTE", ",", " ", "E", "n", "g", "i", "n", "e", " ", "L", "o", "a", "d", " ", ",", "A", "F", "R", ",", "K", "n", "o", "c", "k", " ", "C", "y", "l", " ", "1">>
LineQuoted == <<"B", "o", "o", "s", "t", " ", "(", "p", "s", "i", ")", ",", "QUOTE", "H", "P", "F", "P", ",", " ", "a", "c", "t", "u", "a", "l", "QUOTE", ",", "I", "A", "T">>
LineData   == <<"1", ",", "8", "0", ",", "1", "5", ".", "0", "0", ",", "-", "3", "CR">>
LineBad    == <<"x", ",", ",", "QUOTE", "1", ",", "5", "QUOTE">>
LineSpace  == <<" ">>

\* a header line with a quoted cell and padded cells; a line of three other
\* channel names, one quoted with a comma inside; a data line that ends in a
\* carriage return; a line with a non-numeric cell, an empty cell and a
\* quoted cell that holds a comma, one cell short; a blank line
LineSet == {LineHeader, LineQuoted, LineData, LineBad, LineSpace}

RECURSIVE JoinLines(_)
\* the lines with a line feed between them
JoinLines(ls) ==
    IF Len(ls) = 0 THEN <<>>
    ELSE IF Len(ls) = 1 THEN ls[1]
    ELSE ls[1] \o <<"LF">> \o JoinLines(Tail(ls))

\* the empty text and the texts of up to MaxLines lines
TextSet == {<<>>} \cup {JoinLines(ls) : ls \in SeqsUpTo(LineSet, MaxLines)}

\* parseCsv of each text it is called with here that passes the line check,
\* computed once
ParsedTexts ==
    {[text |-> t, parsed |-> parseCsv(t)] :
        t \in {u \in TextSet : ~TooFewLines(NonBlankLines(u))}}

\* parseCsv(text), looked up
Parsed(text) == (CHOOSE p \in ParsedTexts : p.text = text).parsed

ParseInit ==
    /\ pc = "parseCsv"
    /\ StorageParked
    /\ csvText \in TextSet
    /\ headers = <<>> /\ error = ""
    /\ rows = <<>>
    /\ columns = NoColumns
    /\ timingColumns = <<>>
    /\ boostUnit = "psi"
    /\ ethanol = Eth(10)
    /\ ethanolB = Absent
    /\ thresholds = NoThresholds /\ thresholdsB = NoThresholds
    /\ LogIdle
    /\ ClassParked /\ WorstParked

\* const { rows, columns, timingColumns, boostUnit } = parseCsv(csvText): the
\* Error of parseCsvText leaves analyzeLog, otherwise the analysis starts
CallParseCsv ==
    /\ pc = "parseCsv"
    /\ \/ /\ TooFewLines(NonBlankLines(csvText))
          /\ error' = ParseErrorMessage
          /\ pc' = "thrown"
          /\ UNCHANGED <<headers, inputVars>>
       \/ /\ ~TooFewLines(NonBlankLines(csvText))
          /\ \E parsed \in {Parsed(csvText)} :
                /\ headers' = parsed.headers
                /\ rows' = parsed.rows
                /\ columns' = parsed.columns
                /\ timingColumns' = parsed.timingColumns
                /\ boostUnit' = parsed.boostUnit
          /\ pc' = "analyzeLog"
          /\ UNCHANGED error
    /\ UNCHANGED <<storageVars, csvText, classVars, threshVars, worstVars, isLambdaAfr, i,
                   afrLoop, maxDropPct, afr, hpfp, iat, timing, result, chartData>>

ParseNext ==
    \/ CallParseCsv
    \/ StartAnalyzeLog
    \/ CallAnalyzeAfr
    \/ CallAnalyzeHpfp
    \/ CallAnalyzeIat
    \/ CallAnalyzeTimingCorrections
    \/ Aggregate
    \/ CallBuildChartData

\* the call is synchronous: every statement that can run does run
SpecParse == ParseInit /\ [][ParseNext]_vars /\ WF_vars(ParseNext)

\* the number of lines of the text, split at its line feeds, that hold a
\* character other than a space, a tab or a carriage return
NonBlankLineCount ==
    LET feeds    == {k \in 1..Len(csvText) : csvText[k] = "LF"}
        ends     == feeds \cup {Len(csvText) + 1}
        endOf(b) == CHOOSE e \in ends : e > b /\ \A f \in ends : f > b => e <= f
        inked(b) == \E k \in (b + 1)..(endOf(b) - 1) :
                        csvText[k] \notin {" ", "TAB", "CR"}
    IN  Cardinality({b \in {0} \cup feeds : inked(b)})

MaxBaselineRows == 6

\* a Demand row at 3000 psi and 100 F, a Demand row at 2800 psi and 90 F, and a
\* Coast row at 2000 psi and 150 F
BaselineRowSet ==
    {[BlankRow EXCEPT !.load = Num(60), !.hpfp = Num(3000), !.iat = Num(100)],
     [BlankRow EXCEPT !.load = Num(60), !.hpfp = Num(2800), !.iat = Num(90)],
     [BlankRow EXCEPT !.load = Num(10), !.hpfp = Num(2000), !.iat = Num(150)]}

BaselineColumns ==
    [NoColumns EXCEPT !.time = HdrTime, !.load = HdrLoad, !.hpfp = HdrHpfp,
                      !.iat = HdrIatF]

BaselineInit ==
    /\ pc = "analyzeLog"
    /\ StorageParked
    /\ rows \in SeqsUpTo(BaselineRowSet, MaxBaselineRows)
    /\ columns = BaselineColumns
    /\ timingColumns = <<>>
    /\ boostUnit = "psi"
    /\ ethanol = Eth(10)
    /\ ethanolB = Absent
    /\ thresholds = NoThresholds /\ thresholdsB = NoThresholds
    /\ LogIdle /\ ParseParked
    /\ ClassParked /\ WorstParked

BaselineNext ==
    \/ StartAnalyzeLog
    \/ CallAnalyzeAfr
    \/ CallAnalyzeHpfp
    \/ CallAnalyzeIat
    \/ CallAnalyzeTimingCorrections
    \/ Aggregate
    \/ CallBuildChartData

SpecBaseline == BaselineInit /\ [][BaselineNext]_vars

\* the rows of the log that isDemand classifies as Demand
DemandRowsOfLog == {k \in 1..Len(rows) : RowIsDemand(rows[k], columns, boostUnit)}

\* the Demand rows when there are five or more of them, else every row
BaselineRowsOfLog ==
    IF Cardinality(DemandRowsOfLog) >= 5 THEN DemandRowsOfLog ELSE 1..Len(rows)

\* the baseline rows with a positive HPFP reading, and those with an IAT reading
HpfpBaselineRows == {k \in BaselineRowsOfLog : rows[k].hpfp.ok /\ rows[k].hpfp.v > 0}
IatBaselineRows  == {k \in BaselineRowsOfLog : rows[k].iat.ok}

RECURSIVE HpfpTotal(_)
\* the sum of the HPFP readings of the rows S
HpfpTotal(S) ==
    IF S = {} THEN 0
    ELSE LET k == CHOOSE x \in S : TRUE IN rows[k].hpfp.v + HpfpTotal(S \ {k})

\* C23: the average and the peak actual pressure that analyzeHpfp reports, and
\* the IAT peak that analyzeIat reports, are those of the Demand rows when five
\* or more rows of the log are Demand, and those of all rows otherwise.
C23_BaselinesFromDemandRowsOrAll ==
    /\ (hpfp.status # "" /\ HpfpBaselineRows # {}) =>
          /\ hpfp.actual = Num(RoundDiv(HpfpTotal(HpfpBaselineRows),
                                        Cardinality(HpfpBaselineRows)))
          /\ hpfp.target.ok
          /\ \E k \in HpfpBaselineRows : rows[k].hpfp.v = hpfp.target.v
          /\ \A k \in HpfpBaselineRows : rows[k].hpfp.v <= hpfp.target.v
    /\ (iat.status # "" /\ IatBaselineRows # {}) =>
          /\ iat.value.ok
          /\ \E k \in IatBaselineRows : rows[k].iat.v = iat.value.v
          /\ \A k \in IatBaselineRows : rows[k].iat.v <= iat.value.v

\* five Demand rows and, in the middle, a Coast row with the lowest pressure
\* and the highest temperature of the log: the Coast row is left out
C23_Witness ==
    /\ pc = "done" /\ Len(rows) = 6
    /\ DemandRowsOfLog = {1, 2, 3, 5, 6}
    /\ rows[4].hpfp = Num(2000) /\ rows[4].iat = Num(150)
    /\ rows[1].hpfp = Num(2800)
    /\ \A k \in {2, 3, 5, 6} : rows[k].hpfp = Num(3000)
    /\ hpfp.actual = Num(2960) /\ hpfp.target = Num(3000)
    /\ iat.value = Num(100) /\ iat.status = "Safe"


\* ============================================================================
\* The column resolution of parseCsv: findColumn for every channel, on header
\* lists of up to three headers
\* ============================================================================

MaxColumnHeaders == 3

HdrLambda      == <<"L", "a", "m", "b", "d", "a">>
HdrIatAfr      == <<"I", "A", "T", " ", "a", "f", "r">>
HdrRadiatorMap == <<"R", "a", "d", "i", "a", "t", "o", "r", " ", "M", "A", "P">>
HdrMapPost     == <<"M", "A", "P", " ", "P", "o", "s", "t", "-", "T", "h", "r", "o", "t", "t", "l", "e">>

\* 'afr' outranks 'lambda'; "IAT afr" starts with 'iat' and holds 'afr';
\* "Radiator MAP" holds 'iat' past its start and holds 'map'; "MAP
\* Post-Throttle" holds 'map' and an exclusion of the boost channel; the
\* header of the AFR target holds 'afr' as well
ColumnHeaderSet ==
    {HdrAfr, HdrLambda, HdrIatAfr, HdrRadiatorMap, HdrMapPost, HdrAfrTarget}

FindColumnInit ==
    /\ pc = "findColumn"
    /\ StorageParked
    /\ headers \in SeqsUpTo(ColumnHeaderSet, MaxColumnHeaders)
    /\ csvText = <<>> /\ error = ""
    /\ rows = <<>>
    /\ columns = NoColumns
    /\ timingColumns = <<>>
    /\ boostUnit = "psi"
    /\ LogIdle
    /\ ClassParked /\ ThreshParked /\ WorstParked

\* for (const [key, keywords] of Object.entries(COLUMN_MAP))
\*     columns[key] = findColumn(headers, keywords, exclude)
CallFindColumn ==
    /\ pc = "findColumn"
    /\ columns' = ResolveColumns(headers)
    /\ pc' = "resolved"
    /\ UNCHANGED <<storageVars, classVars, threshVars, worstVars, rows, timingColumns,
                   boostUnit, isLambdaAfr, i, afrLoop, maxDropPct, afr, hpfp, iat,
                   timing, result, chartData, parseVars>>

FindColumnNext == CallFindColumn

SpecFindColumn == FindColumnInit /\ [][FindColumnNext]_vars

\* character c in lower case
LowerChar(c) == IF c \in DOMAIN LowerOf THEN LowerOf[c] ELSE c

\* word stands in header h from position off + 1 on, whatever the case
StandsAt(h, word, off) ==
    /\ off + Len(word) <= Len(h)
    /\ \A j \in 1..Len(word) : LowerChar(h[off + j]) = LowerChar(word[j])

\* header h holds word somewhere, whatever the case
Holds(h, word) == \E off \in 0..Len(h) : StandsAt(h, word, off)

\* the exclusion substrings of a channel
ExcludedWords(chan) ==
    IF chan = "boost"
    THEN {<<"p", "o", "s", "t", " ", "t", "h", "r", "o", "t", "t", "l", "e">>,
          <<"p", "o", "s", "t", "-", "t", "h", "r", "o", "t", "t", "l", "e">>}
    ELSE {}

\* header h is a candidate of the channel for keyword number n of its list
IsCandidate(h, chan, n) ==
    LET keyword == COLUMN_MAP[chan][n]
    IN  /\ ~\E ex \in ExcludedWords(chan) : Holds(h, ex)
        /\ IF keyword[1] = "^" THEN StandsAt(h, Tail(keyword), 0)
           ELSE Holds(h, keyword)

\* the keywords of the channel that have a candidate among the headers
LiveKeywords(chan) ==
    {n \in 1..Len(COLUMN_MAP[chan]) :
        \E k \in 1..Len(headers) : IsCandidate(headers[k], chan, n)}

\* C21: for each channel the resolved column is the first header, in header
\* order, that is a candidate for the highest-priority keyword that has a
\* candidate: a keyword that begins with '^' takes the headers that start with
\* it, any other keyword those that hold it, whatever the case, and a header
\* that holds an exclusion substring is no candidate; the column is null when
\* no keyword has a candidate.
C21_FirstHeaderOfBestKeyword ==
    pc = "resolved" =>
        \A chan \in Channels :
            /\ LiveKeywords(chan) = {} => columns[chan] = <<>>
            /\ LiveKeywords(chan) # {} =>
                  \E n \in LiveKeywords(chan), k \in 1..Len(headers) :
                      /\ \A m \in LiveKeywords(chan) : n <= m
                      /\ IsCandidate(headers[k], chan, n)
                      /\ \A j \in 1..(k - 1) : ~IsCandidate(headers[j], chan, n)
                      /\ columns[chan] = headers[k]
            /\ \A ex \in ExcludedWords(chan) : ~Holds(columns[chan], ex)

\* Lambda, MAP Post-Throttle, IAT afr: afr is the third header though the
\* first holds 'lambda', iat is the third, boost is null
C21_Witness ==
    /\ pc = "resolved"
    /\ headers = <<HdrLambda, HdrMapPost, HdrIatAfr>>
    /\ columns.afr = HdrIatAfr
    /\ columns.iat = HdrIatAfr
    /\ columns.boost = <<>>
    /\ columns.throttle = HdrMapPost
    /\ columns.time = <<>>


\* C26: the resolved columns never give the afr channel and the afr_target
\* channel the same header, nor the hpfp channel and the hpfp_target channel.
C26_ActualAndTargetColumnsDiffer ==
    pc = "resolved" =>
        /\ columns.afr # <<>> => columns.afr # columns.afr_target
        /\ columns.hpfp # <<>> => columns.hpfp # columns.hpfp_target


\* ============================================================================
\* The boost unit of parseCsv: detectBoostUnit on the resolved boost header and
\* the boost cells of the first 50 rows, on short logs and on logs of 50 rows
\* and more
\* ============================================================================

MaxBoostRows == 51

HdrBoost    == <<"B", "o", "o", "s", "t">>
HdrBoostBar == <<"B", "o", "o", "s", "t", " ", "(", "b", "a", "r", ")">>
HdrMapKpa   == <<"M", "A", "P", " ", "k", "P", "a">>

\* boost cells in tenths: none, -0.5, 0, 4.9, 5.0, 50.0 and 50.1
BoostCells == {NaN} \cup {Num(v) : v \in {0 - 5, 0, 49, 50, 500, 501}}

BoostRowOf(cell) == [BlankRow EXCEPT !.boost = cell]

\* logs of one or two rows, and logs of 50 rows or more whose rows hold one
\* cell but for the last
BoostLogs ==
    SeqsUpTo({BoostRowOf(c) : c \in BoostCells}, 2)
    \cup {[k \in 1..n |-> IF k < n THEN BoostRowOf(a) ELSE BoostRowOf(b)] :
             n \in 50..MaxBoostRows, a \in BoostCells, b \in BoostCells}

BoostUnitInit ==
    /\ pc = "detectBoostUnit"
    /\ StorageParked
    /\ rows \in BoostLogs
    /\ columns \in {[NoColumns EXCEPT !.boost = h] :
                        h \in {HdrBoost, HdrBoostPsi, HdrBoostBar, HdrMapKpa}}
    /\ timingColumns = <<>>
    /\ boostUnit = ""
    /\ LogIdle /\ ParseParked
    /\ ClassParked /\ ThreshParked /\ WorstParked

\* const boostUnit = detectBoostUnit(columns.boost, boostSamples)
CallDetectBoostUnit ==
    /\ pc = "detectBoostUnit"
    /\ boostUnit' = detectBoostUnit(columns.boost, BoostSamples(rows, columns))
    /\ pc' = "detected"
    /\ UNCHANGED <<storageVars, classVars, threshVars, worstVars, rows, columns, timingColumns,
                   isLambdaAfr, i, afrLoop, maxDropPct, afr, hpfp, iat, timing,
                   result, chartData, parseVars>>

BoostUnitNext == CallDetectBoostUnit

SpecBoostUnit == BoostUnitInit /\ [][BoostUnitNext]_vars

\* the unit the boost header of the log names, "" when it names none
BoostHeaderUnit ==
    IF columns.boost = HdrBoostPsi THEN "psi"
    ELSE IF columns.boost = HdrBoostBar THEN "bar"
    ELSE IF columns.boost = HdrMapKpa THEN "kpa"
    ELSE ""

\* the boost values, in tenths, of the first 50 rows at most
SampledBoost ==
    {rows[k].boost.v : k \in {j \in 1..Len(rows) : j <= 50 /\ rows[j].boost.ok}}

\* the unit the largest value of S calls for
UnitOfMaximum(S) ==
    IF \E v \in S : v > 500 THEN "kpa"
    ELSE IF \A v \in S : v < 50 THEN "bar"
    ELSE "psi"

\* C22 as stated: without a unit in the header the unit follows the maximum of
\* the boost values of the first 50 rows at most, kPa above 50, bar below 5,
\* psi otherwise; with a unit in the header it is that unit.
C22_UnitFromSampledMaximum ==
    pc = "detected" =>
        /\ BoostHeaderUnit # "" => boostUnit = BoostHeaderUnit
        /\ (BoostHeaderUnit = "" /\ SampledBoost # {}) =>
              boostUnit = UnitOfMaximum(SampledBoost)

\* C22 amended: without a unit in the header the unit follows the maximum of
\* the positive boost values of the first 50 rows at most, kPa above 50, bar
\* below 5, psi otherwise, and is psi when no sampled value is positive; with
\* a unit in the header it is that unit.
C22_UnitFromPositiveSampledMaximum ==
    pc = "detected" =>
        /\ BoostHeaderUnit # "" => boostUnit = BoostHeaderUnit
        /\ BoostHeaderUnit = "" =>
              boostUnit = IF {v \in SampledBoost : v > 0} = {} THEN "psi"
                          ELSE UnitOfMaximum({v \in SampledBoost : v > 0})

\* a unit-less header, fifty rows at 4.9 and a fifty-first at 50.1: the last
\* row is not sampled and the unit is bar
C22_Witness ==
    /\ pc = "detected"
    /\ columns.boost = HdrBoost
    /\ Len(rows) = 51
    /\ \A k \in 1..50 : rows[k].boost = Num(49)
    /\ rows[51].boost = Num(501)
    /\ boostUnit = "bar"


\* ============================================================================
\* analyzeLog on logs where the chart flags and the metrics can be compared:
\* the four analyzers, the aggregate and buildChartData on the same rows
\* ============================================================================

MaxFlagRows == 6

\* the quiet WOT row; a lean-caution, a rich-risk and an above-fuel-cut WOT
\* row; a pull of -3 at WOT with the pedal lifted and no throttle reading; a
\* Coast row (load 10 %, no boost) whose HPFP reads 2000 psi
FlagRowSet ==
    {QuietRow, LogRowOf(1280, 3000, 100, 0), LogRowOf(900, 3000, 100, 0),
     LogRowOf(1700, 3000, 100, 0),
     [LogRowOf(1200, 3000, 100, 0 - 3) EXCEPT !.pedal = Num(0)],
     [LogRowOf(1200, 2000, 100, 0) EXCEPT !.load = Num(10), !.boost = Num(0)]}

\* logs of quiet rows but for the first and the last row
FlagLogs ==
    {[k \in 1..n |-> IF k = n THEN r2 ELSE IF k = 1 THEN r1 ELSE QuietRow] :
        n \in 1..MaxFlagRows, r1 \in FlagRowSet, r2 \in FlagRowSet}

FlagsInit ==
    /\ pc = "analyzeLog"
    /\ StorageParked
    /\ rows \in FlagLogs
    /\ columns \in {ChartColumns, [ChartColumns EXCEPT !.hpfp_target = <<>>]}
    /\ timingColumns = <<HdrTimingCyl>>
    /\ boostUnit = "psi"
    /\ ethanol = Eth(10)
    /\ ethanolB = Absent
    /\ thresholds = NoThresholds /\ thresholdsB = NoThresholds
    /\ LogIdle /\ ParseParked
    /\ ClassParked /\ WorstParked

SpecFlags == FlagsInit /\ [][Next]_vars

\* C27: when some chart point has isHpfpWarning, the HPFP metric of the result
\* is Risk.
C27_HpfpFlagMeansHpfpRisk ==
    pc = "done" =>
        (FlaggedHpfpPoints # {} => result.metrics.hpfp.status = "Risk")

\* C28: when some chart point has isTimingWarning, the timing-correction
\* metric of the result is Caution or Risk.
C28_TimingFlagMeansTimingCautionOrRisk ==
    pc = "done" =>
        ((\E k \in 1..Len(chartData) : chartData[k].isTimingWarning)
            => result.metrics.timingCorrections.status \in {"Caution", "Risk"})

\* C29: when some chart point has isLeanWarning, the AFR metric of the result
\* counts at least one lean event.
C29_LeanFlagMeansLeanEvent ==
    pc = "done" =>
        ((\E k \in 1..Len(chartData) : chartData[k].isLeanWarning)
            => result.metrics.afr.lean_events >= 1)


\* ============================================================================
\* storage.js: the recent-logs list and the full results kept beside it.
\* localStorage is the function from the keys it holds to their values; a
\* value is held as JSON.parse reads it back.  The key of the list is
\* <<KEYS.RECENT_LOGS>>, the key `${KEYS.LOG_RESULTS}_${id}` is
\* <<KEYS.LOG_RESULTS, id>>.
\* ============================================================================

KEYS == [RECENT_LOGS |-> "ethos_recent_logs", LOG_RESULTS |-> "ethos_log_results"]

MAX_RECENT_LOGS == 10

RecentLogsKey == <<KEYS.RECENT_LOGS>>
LogResultsKey(id) == <<KEYS.LOG_RESULTS, id>>

\* localStorage.setItem(key, value) and localStorage.removeItem(key), the
\* latter for a set of keys
setItem(store, key, value) ==
    [k \in DOMAIN store \cup {key} |-> IF k = key THEN value ELSE store[k]]

removeItems(store, keys) == [k \in DOMAIN store \ keys |-> store[k]]

\* JSON.parse(localStorage.getItem(KEYS.RECENT_LOGS) || '[]')
getRecentLogs(store) ==
    IF RecentLogsKey \in DOMAIN store THEN store[RecentLogsKey] ELSE <<>>

\* JSON.parse(localStorage.getItem(`${KEYS.LOG_RESULTS}_${id}`) || 'null')
getLogResult(store, id) ==
    IF LogResultsKey(id) \in DOMAIN store THEN store[LogResultsKey(id)] ELSE <<>>

OldLogsBeyondLimit(logs) == SubSeq(logs, MAX_RECENT_LOGS + 1, Len(logs))

\* logs.slice(MAX_RECENT_LOGS - 1)
OldLogs(logs) == SubSeq(logs, MAX_RECENT_LOGS, Len(logs))

\* saveRecentLog(analysis) at time id: the full results of the old entries
\* are removed, the entry is put first and the list cut to MAX_RECENT_LOGS,
\* the full result is stored unless the quota is exceeded; the store it leaves
\* behind
saveRecentLog(store, analysis, id, quotaExceeded) ==
    LET logs    == getRecentLogs(store)
        entry   == [id |-> id, date |-> id, status |-> analysis.status,
                    rowCount |-> analysis.row_count]
        oldLogs == OldLogs(logs)
        trimmed == removeItems(store, {LogResultsKey(oldLogs[k].id) :
                                          k \in 1..Len(oldLogs)})
        updated == SubSeq(<<entry>> \o logs, 1,
                          Min(MAX_RECENT_LOGS, Len(logs) + 1))
        listed  == setItem(trimmed, RecentLogsKey, updated)
    IN  IF quotaExceeded THEN listed
        ELSE setItem(listed, LogResultsKey(id), analysis)

\* clearRecentLogs(): the full results of the listed entries and the list
\* itself are removed
clearRecentLogs(store) ==
    LET logs == getRecentLogs(store)
    IN  removeItems(store, {LogResultsKey(logs[k].id) : k \in 1..Len(logs)}
                           \cup {RecentLogsKey})

MaxSavedLogs == 12

SavedAnalysis == [status |-> "Safe", row_count |-> 2]

StorageInit ==
    /\ pc = "storage"
    /\ StorageParked
    /\ LogParked
    /\ ClassParked /\ ThreshParked /\ WorstParked

\* one call of saveRecentLog, at a millisecond of its own
SaveRecentLog ==
    /\ pc = "storage"
    /\ now <= MaxSavedLogs
    /\ \E quotaExceeded \in BOOLEAN :
          localStorage' = saveRecentLog(localStorage, SavedAnalysis, now,
                                        quotaExceeded)
    /\ now' = now + 1
    /\ UNCHANGED <<pc, classVars, threshVars, worstVars, logVars>>

\* one call of clearRecentLogs
ClearRecentLogs ==
    /\ pc = "storage"
    /\ localStorage' = clearRecentLogs(localStorage)
    /\ UNCHANGED <<pc, now, classVars, threshVars, worstVars, logVars>>

StorageNext == SaveRecentLog \/ ClearRecentLogs

SpecStorage == StorageInit /\ [][StorageNext]_vars

\* the ids whose full result is held
HeldResults ==
    {key[2] : key \in {k \in DOMAIN localStorage : k[1] = KEYS.LOG_RESULTS}}

\* C30: after any sequence of saveRecentLog and clearRecentLogs calls the
\* recent-logs list holds at most 10 entries, ordered newest first, and every
\* full result held in storage belongs to an entry of the list.
C30_ListBoundedNewestFirstAndResultsListed ==
    pc = "storage" =>
        LET logs == getRecentLogs(localStorage)
        IN  /\ Len(logs) <= 10
            /\ \A a, b \in 1..Len(logs) : a < b => logs[a].date > logs[b].date
            /\ \A id \in HeldResults : \E k \in 1..Len(logs) : logs[k].id = id

\* eleven saves, none over quota: the list holds the last ten, and the full
\* result of the first is gone
C30_Witness ==
    /\ pc = "storage"
    /\ now = 12
    /\ Len(getRecentLogs(localStorage)) = 10
    /\ getRecentLogs(localStorage)[1].id = 11
    /\ getRecentLogs(localStorage)[10].id = 2
    /\ HeldResults = 2..11

=============================================================================
